---- MODULE Spec2Model ----
(***************************************************************************)
(* A model of the machine-learning engine under backend/models and         *)
(* backend/utils.  Every estimator is modelled at the level its control    *)
(* flow needs: array shapes, the exceptions numpy and Python raise on      *)
(* them, the nullable fields that stand for the Unfit / Fitted state, and, *)
(* for the geometric algorithms, small one-dimensional integer datasets.   *)
(* Each component has its own specification (SpecLR, SpecEst, ...); the    *)
(* variables of the other components stay at the values a default          *)
(* construction gives them.                                                *)
(***************************************************************************)
EXTENDS Integers, Sequences, FiniteSets, TLC

VARIABLES
    \* ---- LinearRegression instance (models/regression.py)
    lr_configured,   \* ghost: the method argument given to __init__
    lr_n_iterations, \* self.n_iterations
    lr_method,       \* self.method
    lr_weights,      \* self.weights: NoArray or a sequence of symbolic entries
    lr_stats,        \* self.X_mean/X_std/y_mean/y_std: NoStats or their length
    lr_is_fitted,    \* self.is_fitted
    lr_last,         \* ghost: what the last call did and how it ended
    \* ---- one estimator instance of any class (its Unfit / Fitted life cycle)
    est_kind,        \* the class of the instance
    est_metric,      \* self.distance_metric, None for a class without one
    est_is_fitted,   \* self.is_fitted, for the classes that keep the flag
    est_params,      \* TRUE when the nullable parameter fields are set
    est_last,        \* ghost: what the last call did and how it ended
    \* ---- HierarchicalClustering instance (models/clustering.py)
    hc_n_clusters,   \* self.n_clusters
    hc_linkage,      \* self.linkage
    hc_metric,       \* self.distance_metric
    hc_labels,       \* self.labels: NoArray or one label per point
    hc_merge_history,\* self.merge_history
    hc_n_iters,      \* self.n_iters_: <<>> while the attribute does not exist
    hc_data,         \* the dataset the caller holds and fits the instance on
    hc_fits,         \* ghost: the number of fit calls made so far
    hc_last,         \* ghost: what the last call did and how it ended
    \* ---- the process-wide generator behind np.random.seed / permutation / ...
    np_random,       \* its state
    \* ---- train_test_split (utils/preprocessing.py)
    sp_last,         \* ghost: the arguments and the result of the last call
    \* ---- KNNRegressor / KNNClassifier instance (models/knn.py)
    knn_kind,        \* the class of the instance
    knn_k,           \* self.k
    knn_metric,      \* self.distance_metric
    knn_X_train,     \* self.X_train (with X_mean, X_std): NoArray or the data
    knn_y_train,     \* self.y_train: NoArray or the targets
    knn_data,        \* the training set [X, y] the caller holds
    knn_last,        \* ghost: what the last call did and how it ended
    \* ---- request threads that run the randomized routines (app.py)
    rc_job,          \* per caller: the routine it runs and its arguments
    rc_pc,           \* per caller: the position in that routine
    rc_local,        \* per caller: the locals of KMeans.fit
    rc_result,       \* per caller: what the routine returned
    \* ---- one KMeans instance (models/clustering.py)
    km_n_clusters,   \* self.n_clusters
    km_max_iters,    \* self.max_iters
    km_metric,       \* self.distance_metric
    km_random_state, \* self.random_state: <<>> is None, <<s>> the seed s
    km_data,         \* the dataset the caller holds
    km_stats,        \* self.X_mean, self.X_std: NoArray, or the data they are of
    km_centroids,    \* self.centroids: NoArray or the centroids
    km_labels,       \* self.labels: NoArray or the labels
    km_n_iters,      \* self.n_iters_: <<>> while the attribute is not set
    km_last,         \* ghost: what the last call did and how it ended
    \* ---- one DBSCAN instance (models/clustering.py)
    db_eps,          \* self.eps, in the units of distance_func
    db_min_samples,  \* self.min_samples
    db_metric,       \* self.distance_metric
    db_data,         \* the dataset the caller holds
    db_labels,       \* self.labels: NoArray or the labels
    db_n_clusters,   \* self.n_clusters_: <<>> while the attribute is not set
    db_n_noise,      \* self.n_noise_: <<>> while the attribute is not set
    db_core,         \* self.core_sample_indices_
    db_last,         \* ghost: what the last call did and how it ended
    \* ---- one PCA and one SVD instance (models/decomposition.py)
    pca_n_components,        \* self.n_components: <<>> is None, <<k>> the count k
    pca_variance_threshold,  \* self.variance_threshold, in hundredths: <<>> or <<t>>
    pca_data,                \* the dataset the caller holds, as [n_samples, spectrum]
    pca_mean,                \* self.mean_, self.std_: <<>>, or <<n_features>> once set
    pca_ratio,               \* self.explained_variance_ratio_: NoArray or rationals
    pca_n_components_,       \* self.n_components_: <<>> is None
    pca_components,          \* self.components_: <<>> is None, <<rows, columns>> its shape
    pca_is_fitted,           \* self.is_fitted
    svd_n_components,        \* SVD.n_components: <<>> is None
    svd_shapes,              \* the lengths of U (columns), S, Vt (rows),
                             \* explained_variance_, explained_variance_ratio_; <<>> is None
    svd_is_fitted,           \* SVD.is_fitted
    dec_last,                \* ghost: what the last call did and how it ended
    \* ---- classification_metrics (utils/metrics.py)
    mt_y_true,       \* the y_true the caller holds
    mt_y_pred,       \* the y_pred the caller holds
    mt_result,       \* what the last call returned; called is FALSE before it
    \* ---- LinearRegression._gradient_descent, one loop pass per step
    gd_n_iterations, \* self.n_iterations
    gd_tol,          \* self.tol, in the unit of the loss values
    gd_n_features,   \* the number of columns of the design matrix
    gd_call,         \* the running call: its position and its local variables
    \* ---- the fit calls of the clustering classes, one loop pass per step
    km_call,         \* KMeans.fit: its position and its local variables
    hc_call,         \* HierarchicalClustering.fit: the same
    db_call,         \* DBSCAN.fit and the _expand_cluster it calls: the same
    \* ---- generate_polynomial_features (utils/preprocessing.py)
    pf_X,                \* one row of the argument X: the value of every feature
    pf_degree,           \* the argument degree
    pf_include_bias,     \* the argument include_bias
    pf_interaction_only, \* the argument interaction_only
    pf_last,             \* the last call and what it returned
    \* ---- one GaussianNaiveBayes (models/classification.py)
    nb_var_smoothing,    \* self.var_smoothing, a rational <<num, den>>
    nb_X,                \* the training rows a caller is about to pass to fit
    nb_y,                \* the training labels
    nb_classes,          \* self.classes_
    nb_class_prior,      \* self.class_prior_, rationals
    nb_theta,            \* self.theta_, rationals
    nb_var,              \* self.var_, rationals
    nb_epsilon,          \* self.epsilon_, <<>> for None
    nb_is_fitted,        \* self.is_fitted
    nb_last              \* the last call and its outcome

lrVars == <<lr_configured, lr_n_iterations, lr_method, lr_weights, lr_stats,
            lr_is_fitted, lr_last>>

estVars == <<est_kind, est_metric, est_is_fitted, est_params, est_last>>

hcVars == <<hc_n_clusters, hc_linkage, hc_metric, hc_labels, hc_merge_history,
            hc_n_iters, hc_data, hc_fits, hc_last>>

rngVars == <<np_random>>
spVars == <<sp_last>>

knnVars == <<knn_kind, knn_k, knn_metric, knn_X_train, knn_y_train, knn_data,
             knn_last>>

rcVars == <<rc_job, rc_pc, rc_local, rc_result>>

kmVars == <<km_n_clusters, km_max_iters, km_metric, km_random_state, km_data,
            km_stats, km_centroids, km_labels, km_n_iters, km_last>>

dbVars == <<db_eps, db_min_samples, db_metric, db_data, db_labels, db_n_clusters,
            db_n_noise, db_core, db_last>>

decVars == <<pca_n_components, pca_variance_threshold, pca_data, pca_mean, pca_ratio,
             pca_n_components_, pca_components, pca_is_fitted,
             svd_n_components, svd_shapes, svd_is_fitted, dec_last>>

mtVars == <<mt_y_true, mt_y_pred, mt_result>>

gdVars == <<gd_n_iterations, gd_tol, gd_n_features, gd_call>>

callVars == <<km_call, hc_call, db_call>>

pfVars == <<pf_X, pf_degree, pf_include_bias, pf_interaction_only, pf_last>>

nbVars == <<nb_var_smoothing, nb_X, nb_y, nb_classes, nb_class_prior, nb_theta, nb_var,
            nb_epsilon, nb_is_fitted, nb_last>>

vars == <<lrVars, estVars, hcVars, rngVars, spVars, knnVars, rcVars, kmVars, dbVars,
          decVars, mtVars, gdVars, callVars, pfVars, nbVars>>

\* Python's None, for a field that holds a name, an array and a set of
\* statistics respectively (TLC compares values of one kind only).
None == "None"
NoArray == <<>>
NoStats == [set |-> FALSE, n_features |-> 0]

Max(a, b) == IF a >= b THEN a ELSE b
Min(a, b) == IF a <= b THEN a ELSE b

(***************************************************************************)
(* Bounds of the model.                                                    *)
(***************************************************************************)
\* Largest "small" number of rows of X or y given to LinearRegression.fit.
MaxSamples == 3
\* Largest number of feature columns given to LinearRegression.fit.
MaxFeatures == 2

(***************************************************************************)
(* LinearRegression (models/regression.py)                                 *)
(***************************************************************************)
\* fit: "if n_samples > 1000 ..." in the auto branch.
AutoGradientThreshold == 1000

\* Solver names the constructor documents, and one it does not.
Methods == {"normal", "gradient", "svd", "auto"}
MethodInputs == Methods \cup {"lbfgs"}

\* Row counts tried: small ones and the two around the auto threshold.
SampleCounts == (0..MaxSamples) \cup {AutoGradientThreshold, AutoGradientThreshold + 1}

\* What one numpy.linalg call of the solvers can do on the given matrix:
\* return, or raise LinAlgError (singular matrix, SVD did not converge).
\* The matrix entries are not modelled, so each call's fate is an input.
LinalgFates == [inv : BOOLEAN, pinvXtX : BOOLEAN, pinvX : BOOLEAN,
                ridge : BOOLEAN, svd : BOOLEAN]

\* X.T @ y, U.T @ y, pinv(X) @ y: matmul of (.., nX) with (nY,) raises
\* ValueError unless the lengths agree.
MatmulMismatch(nX, nY) == nX # nY

\* One attempt of a solver: the linalg call, then the product with y.
\* "ok", "LinAlgError" or "ValueError", in the order Python evaluates.
Attempt(linalgFails, nX, nY) ==
    IF linalgFails THEN "LinAlgError"
    ELSE IF MatmulMismatch(nX, nY) THEN "ValueError"
    ELSE "ok"

\* _normal_equation: the nested try/except chain.  The outermost handler
\* catches LinAlgError only, the inner ones catch everything, the last
\* attempt is not guarded.  Returns the attempts made and how each ended.
NormalEquationTrail(f, nX, nY) ==
    LET a1 == Attempt(f.inv \/ nX = 0, nX, nY)
        a2 == Attempt(f.pinvXtX, nX, nY)
        a3 == Attempt(f.pinvX, nX, nY)
        a4 == Attempt(f.ridge, nX, nY)
    IN  IF a1 # "LinAlgError" THEN << <<"inv", a1>> >>
        ELSE IF a2 = "ok" THEN << <<"inv", a1>>, <<"pinvXtX", a2>> >>
        ELSE IF a3 = "ok" THEN << <<"inv", a1>>, <<"pinvXtX", a2>>, <<"pinvX", a3>> >>
        ELSE << <<"inv", a1>>, <<"pinvXtX", a2>>, <<"pinvX", a3>>, <<"ridge", a4>> >>

\* _svd_solution: svd, and pinv(X) @ y under a bare except.
SvdTrail(f, nX, nY) ==
    LET a1 == Attempt(f.svd, nX, nY)
        a2 == Attempt(f.pinvX, nX, nY)
    IN  IF a1 = "ok" THEN << <<"svd", a1>> >>
        ELSE << <<"svd", a1>>, <<"pinvX", a2>> >>

\* _gradient_descent: the loop body's first iteration decides whether it
\* raises.  "y_pred - y" broadcasts (nX,) with (nY,), "2 / n_samples"
\* divides by the Python int n_samples, "X.T @ error" is a matmul.
GradientTrail(nIter, nX, nY) ==
    LET broadcasts == nX = nY \/ nX = 1 \/ nY = 1
        lenError == IF nX = nY THEN nX ELSE IF nX = 1 THEN nY ELSE nX
    IN  IF nIter = 0 THEN << <<"gd", "ok">> >>
        ELSE IF ~broadcasts THEN << <<"gd", "ValueError">> >>
        ELSE IF nX = 0 THEN << <<"gd", "ZeroDivisionError">> >>
        ELSE IF MatmulMismatch(nX, lenError) THEN << <<"gd", "ValueError">> >>
        ELSE << <<"gd", "ok">> >>

\* fit, lines 141-147: the solver path of this call.
ActualMethod(method, n_samples, n_features) ==
    IF method = "auto"
    THEN IF n_samples > AutoGradientThreshold \/ n_samples < n_features
         THEN "gradient" ELSE "normal"
    ELSE method

\* fit, lines 150-158: the path the dispatch runs ("else" is the normal one).
SolverPath(actual) ==
    IF actual \in {"gradient", "svd"} THEN actual ELSE "normal"

SolverTrail(path, f, nIter, nX, nY) ==
    CASE path = "normal" -> NormalEquationTrail(f, nX, nY)
      [] path = "gradient" -> GradientTrail(nIter, nX, nY)
      [] path = "svd" -> SvdTrail(f, nX, nY)

\* A solver call raises when its last attempt did not end "ok".
TrailRaised(trail) == trail[Len(trail)][2] # "ok"

\* fit, lines 162-163: zeros(n_features + 1) with weights[0] = mean(y_scaled).
FallbackWeights(n_features) ==
    [i \in 1..(n_features + 1) |-> IF i = 1 THEN "mean_y_scaled" ELSE "zero"]

\* The weight vector a solver returns: one entry per column of the
\* design matrix; the entries are named after the solver that made them.
SolvedWeights(path, n_features) == [i \in 1..(n_features + 1) |-> path]

\* fit, lines 119-121: an underdetermined system overwrites self.method.
MethodAfterFit(method, n_samples, n_features) ==
    IF n_samples < n_features THEN "gradient" ELSE method

\* A handler written "except np.linalg.LinAlgError" instead.
FitCatchesLinAlgErrorOnly(exc) == exc = "LinAlgError"

\* fit, lines 159-163: what "except Exception" catches.
FitCatches(exc) == exc \in {"LinAlgError", "ValueError", "ZeroDivisionError"}

LRFit(nX, nF, nY, f) ==
    LET method1 == MethodAfterFit(lr_method, nX, nF)
        actual == ActualMethod(method1, nX, nF)
        path == SolverPath(actual)
        trail == SolverTrail(path, f, lr_n_iterations, nX, nY)
        raised == TrailRaised(trail)
        exc == trail[Len(trail)][2]
    IN  /\ lr_method' = method1
        /\ lr_stats' = [set |-> TRUE, n_features |-> nF]
        /\ UNCHANGED <<lr_configured, lr_n_iterations>>
        /\ IF raised /\ ~FitCatches(exc)
           THEN /\ UNCHANGED <<lr_weights, lr_is_fitted>>
                /\ lr_last' = [op |-> "fit", outcome |-> exc, nX |-> nX, nF |-> nF,
                               nY |-> nY, path |-> path, trail |-> trail,
                               solver_raised |-> raised]
           ELSE /\ lr_weights' = IF raised THEN FallbackWeights(nF)
                                 ELSE SolvedWeights(path, nF)
                /\ lr_is_fitted' = TRUE
                /\ lr_last' = [op |-> "fit", outcome |-> "returned", nX |-> nX,
                               nF |-> nF, nY |-> nY, path |-> path, trail |-> trail,
                               solver_raised |-> raised]

\* predict, lines 170-171 and 178: the guard, then "X - self.X_mean".
LRPredict(nX, nF) ==
    /\ UNCHANGED <<lr_configured, lr_n_iterations, lr_method, lr_weights,
                   lr_stats, lr_is_fitted>>
    /\ lr_last' = [op |-> "predict",
                   outcome |-> IF ~lr_is_fitted \/ lr_weights = NoArray THEN "NotFitted"
                               ELSE IF nF # lr_stats.n_features /\ nF # 1
                                       /\ lr_stats.n_features # 1
                               THEN "ValueError" ELSE "returned",
                   nX |-> nX, nF |-> nF, nY |-> 0, path |-> None, trail |-> <<>>,
                   solver_raised |-> FALSE]

\* __init__, lines 14-24.
LRInit(methods, iterations) ==
    /\ lr_configured \in methods
    /\ lr_method = lr_configured
    /\ lr_n_iterations \in iterations
    /\ lr_weights = NoArray
    /\ lr_stats = NoStats
    /\ lr_is_fitted = FALSE
    /\ lr_last = [op |-> "init", outcome |-> "returned", nX |-> 0, nF |-> 0,
                  nY |-> 0, path |-> None, trail |-> <<>>, solver_raised |-> FALSE]

\* The linalg calls a path can make; the fate of a call that is never made
\* is not an input.
CallsOf(path) ==
    CASE path = "normal" -> {"inv", "pinvXtX", "pinvX", "ridge"}
      [] path = "gradient" -> {}
      [] path = "svd" -> {"svd", "pinvX"}

FatesOf(path) ==
    {f \in LinalgFates :
        \A c \in {"inv", "pinvXtX", "pinvX", "ridge", "svd"} \ CallsOf(path) : ~f[c]}

LRFitAny ==
    \E nX \in SampleCounts, nF \in 1..MaxFeatures, nY \in SampleCounts :
        \E f \in FatesOf(SolverPath(ActualMethod(MethodAfterFit(lr_method, nX, nF),
                                                 nX, nF))) :
            LRFit(nX, nF, nY, f)

LRPredictAny == \E nX \in 0..MaxSamples, nF \in 1..MaxFeatures : LRPredict(nX, nF)

(***************************************************************************)
(* The Unfit / Fitted life cycle of every estimator class, and the         *)
(* distance-metric lookup of the classes that take a metric name.          *)
(***************************************************************************)
Kinds == {"LinearRegression", "PolynomialRegression", "LogisticRegression",
          "GaussianNaiveBayes", "KNNRegressor", "KNNClassifier", "KMeans",
          "HierarchicalClustering", "DBSCAN", "PCA"}

\* The classes whose __init__ builds the distance_functions dictionary.
MetricKinds == {"KNNRegressor", "KNNClassifier", "KMeans",
                "HierarchicalClustering", "DBSCAN"}

\* The keys of self.distance_functions, and a name that is not a key.
MetricNames == {"euclidean", "manhattan", "minkowski", "chebyshev", "cosine"}
MetricInputs == MetricNames \cup {"hamming"}

\* self.distance_functions.get(self.distance_metric, euclidean_distance)
distance_functions_get(name) ==
    IF name \in MetricNames THEN name ELSE "euclidean"

\* The classes whose predict / transform tests self.is_fitted and raises
\* ValueError("... not fitted yet"); LinearRegression also tests weights.
GuardedKinds == {"LinearRegression", "PolynomialRegression",
                 "GaussianNaiveBayes", "PCA"}

\* The classes whose fit looks the metric up (the KNN classes do it in
\* predict, KMeans in both).
FitResolvesMetric(kind) == kind \in {"KMeans", "HierarchicalClustering", "DBSCAN"}
PredictResolvesMetric(kind) == kind \in {"KNNRegressor", "KNNClassifier", "KMeans"}

\* predict / transform in the state (is_fitted, params): how it ends and
\* what it returns.  Without a guard, the classes that compute on their
\* fields fail inside numpy on None (X - None, X @ None); the two
\* clustering classes whose predict is "return self.labels" return.
PredictOutcome(kind, is_fitted, params) ==
    IF kind \in GuardedKinds
    THEN IF ~is_fitted \/ (kind = "LinearRegression" /\ ~params)
         THEN [outcome |-> "NotFitted", value |-> None]
         ELSE [outcome |-> "returned", value |-> "predictions"]
    ELSE IF kind \in {"HierarchicalClustering", "DBSCAN"}
    THEN [outcome |-> "returned", value |-> IF params THEN "labels" ELSE None]
    ELSE IF ~params
    THEN [outcome |-> "ErrorOnNone", value |-> None]
    ELSE [outcome |-> "returned", value |-> "predictions"]

\* fit on a well-formed dataset: sets the parameter fields, and the flag
\* in the classes that keep one.
EstFit ==
    /\ est_params' = TRUE
    /\ est_is_fitted' = (est_kind \in GuardedKinds)
    /\ est_last' = [op |-> "fit", outcome |-> "returned", value |-> "self",
                    resolved |-> FitResolvesMetric(est_kind),
                    metric_used |-> IF FitResolvesMetric(est_kind)
                                    THEN distance_functions_get(est_metric)
                                    ELSE None]
    /\ UNCHANGED <<est_kind, est_metric>>

EstPredict ==
    LET r == PredictOutcome(est_kind, est_is_fitted, est_params)
        resolves == PredictResolvesMetric(est_kind) /\ r.outcome = "returned"
    IN  /\ est_last' = [op |-> "predict", outcome |-> r.outcome, value |-> r.value,
                        resolved |-> resolves,
                        metric_used |-> IF resolves
                                        THEN distance_functions_get(est_metric)
                                        ELSE None]
        /\ UNCHANGED <<est_kind, est_metric, est_is_fitted, est_params>>

\* __init__ of each class: every parameter field None, is_fitted False.
EstInit(kinds, metrics) ==
    /\ est_kind \in kinds
    /\ est_metric \in (IF est_kind \in MetricKinds THEN metrics ELSE {None})
    /\ est_is_fitted = FALSE
    /\ est_params = FALSE
    /\ est_last = [op |-> "init", outcome |-> "returned", value |-> None,
                   resolved |-> FALSE, metric_used |-> None]

(***************************************************************************)
(* One-dimensional datasets and their distances.                           *)
(*                                                                         *)
(* A dataset is a sequence of integers, one feature per point.  Every      *)
(* model standardises it first: x -> (x - mean) / std with std > 0 (std is *)
(* pinned to 1 when all points are equal).  With one feature the           *)
(* euclidean, manhattan, minkowski and chebyshev distances of two scaled   *)
(* points are all |x_i - x_j| / std, so they are kept as the integer       *)
(* |x_i - x_j|, in units of 1/std.  The cosine distance of two scaled      *)
(* points depends on their signs only: 0 for equal signs, 2 for opposite   *)
(* signs, 1 when either point is the zero vector.                          *)
(***************************************************************************)
\* Largest number of points of a dataset.
MaxPoints == 4
\* The coordinates a point can have.
Coords == {0, 1, 3}

Datasets == UNION {[1..n -> Coords] : n \in 0..MaxPoints}

Abs(a) == IF a < 0 THEN -a ELSE a

RECURSIVE SumSeq(_)
SumSeq(q) == IF q = <<>> THEN 0 ELSE q[1] + SumSeq(Tail(q))

\* The sign of the scaled point (X[i] - mean) / std.
ScaledSign(X, i) ==
    LET d == Len(X) * X[i] - SumSeq(X)
    IN  IF d > 0 THEN 1 ELSE IF d < 0 THEN -1 ELSE 0

\* cosine_similarity_distance on one-dimensional vectors of signs a, b.
cosine_similarity_distance(a, b) ==
    IF a = 0 \/ b = 0 THEN 1 ELSE 1 - a * b

\* The distance function a metric name resolves to, on points i, j of X.
distance_func(metric, X, i, j) ==
    IF distance_functions_get(metric) = "cosine"
    THEN cosine_similarity_distance(ScaledSign(X, i), ScaledSign(X, j))
    ELSE Abs(X[i] - X[j])

\* Rationals <<numerator, denominator>> with denominator >= 0;
\* <<1, 0>> is float("inf").
Inf == <<1, 0>>
\* A comparison that also holds for equal numbers.
RatNotGreater(a, b) == a[1] * b[2] <= b[1] * a[2]
RatLess(a, b) == a[1] * b[2] < b[1] * a[2]
RatEq(a, b) == a[1] * b[2] = b[1] * a[2]

(***************************************************************************)
(* HierarchicalClustering (models/clustering.py)                           *)
(***************************************************************************)
\* Largest n_clusters an instance is built with.
MaxClusters == 2
\* Cap on the number of fit calls made on one instance.
MaxFits == 2

Linkages == {"single", "complete", "average"}
LinkageInputs == Linkages \cup {"ward"}

\* The distances of all member pairs, c1 x c2, in loop order.
RECURSIVE PairDistances(_, _, _, _)
PairDistances(metric, X, c1, c2) ==
    IF c1 = <<>> THEN <<>>
    ELSE [k \in 1..Len(c2) |-> distance_func(metric, X, c1[1], c2[k])]
         \o PairDistances(metric, X, Tail(c1), c2)

RECURSIVE MinSeq(_)
MinSeq(q) == IF Len(q) = 1 THEN q[1] ELSE Min(q[1], MinSeq(Tail(q)))
RECURSIVE MaxSeq(_)
MaxSeq(q) == IF Len(q) = 1 THEN q[1] ELSE Max(q[1], MaxSeq(Tail(q)))

\* cluster_distance, lines 165-178: [raised, dist]; the linkage name is
\* looked at here and nowhere else.
cluster_distance(linkage, metric, X, c1, c2) ==
    LET distances == PairDistances(metric, X, c1, c2)
    IN  CASE linkage = "single" -> [raised |-> FALSE, dist |-> <<MinSeq(distances), 1>>]
          [] linkage = "complete" -> [raised |-> FALSE, dist |-> <<MaxSeq(distances), 1>>]
          [] linkage = "average" ->
                [raised |-> FALSE, dist |-> <<SumSeq(distances), Len(distances)>>]
          [] OTHER -> [raised |-> TRUE, dist |-> Inf]

\* The pairs (i, j), i < j, of cluster positions in the order of the two
\* nested for loops of lines 185-186 (positions count from 1 here).
ScanOrder(n) ==
    LET pairs == {p \in (1..n) \X (1..n) : p[1] < p[2]}
        before(p, q) == p[1] < q[1] \/ (p[1] = q[1] /\ p[2] < q[2])
    IN  [k \in 1..Cardinality(pairs) |->
            CHOOSE p \in pairs : Cardinality({q \in pairs : before(q, p)}) = k - 1]

\* Lines 182-190: the scan for the closest pair, from pair number k on,
\* with best = [min_dist, merge_idx, raised]; merge_idx <<>> is None.
\* (The set of one element binds the value of best, so that it is computed
\* once for the pass.)
RECURSIVE ScanPairs(_, _, _, _, _, _, _)
ScanPairs(linkage, metric, X, clusters, order, k, best) ==
    IF k > Len(order) THEN best
    ELSE LET i == order[k][1]
             j == order[k][2]
             after(d) ==
                IF d.raised THEN [best EXCEPT !.raised = TRUE]
                ELSE CHOOSE r \in {ScanPairs(linkage, metric, X, clusters, order, k + 1, b) :
                                     b \in {IF RatLess(d.dist, best.min_dist)
                                            THEN [min_dist |-> d.dist, merge_idx |-> <<i, j>>,
                                                  raised |-> FALSE]
                                            ELSE best}} : TRUE
         IN  CHOOSE r \in {after(d) : d \in {cluster_distance(linkage, metric, X,
                                                               clusters[i], clusters[j])}} : TRUE

\* clusters.pop(j); clusters.pop(i); clusters.append(new_cluster)
RemoveAt(q, k) == [m \in 1..(Len(q) - 1) |-> IF m < k THEN q[m] ELSE q[m + 1]]
\* A merge that lists the members of cluster j twice.
MergeRepeatsSecond(clusters, i, j) ==
    Append(RemoveAt(RemoveAt(clusters, j), i), clusters[i] \o clusters[j] \o clusters[j])

MergeClusters(clusters, i, j) ==
    Append(RemoveAt(RemoveAt(clusters, j), i), clusters[i] \o clusters[j])

\* Lines 181-203: the while loop, and before it one pass of its body
\* (lines 182-203).  acc = [clusters, history, trace, outcome]; history
\* holds the records appended by this call, trace the cluster list after
\* each merge.  A raise of cluster_distance ends the call with ValueError;
\* a scan over fewer than two clusters leaves merge_idx None and
\* "i, j = merge_idx" ends it with TypeError.
merged_with(acc, best) ==
    IF best.raised THEN [acc EXCEPT !.outcome = "ValueError"]
    ELSE IF best.merge_idx = <<>> THEN [acc EXCEPT !.outcome = "TypeError"]
    ELSE LET i == best.merge_idx[1]
             j == best.merge_idx[2]
             merged == MergeClusters(acc.clusters, i, j)
         IN  [clusters |-> merged,
              history |-> Append(acc.history,
                            [cluster_1 |-> acc.clusters[i],
                             cluster_2 |-> acc.clusters[j],
                             distance |-> best.min_dist]),
              trace |-> Append(acc.trace, merged),
              outcome |-> acc.outcome]

merge_pass(linkage, metric, X, acc) ==
    CHOOSE r \in {merged_with(acc, best) :
                    best \in {ScanPairs(linkage, metric, X, acc.clusters,
                                        ScanOrder(Len(acc.clusters)), 1,
                                        [min_dist |-> Inf, merge_idx |-> <<>>,
                                         raised |-> FALSE])}} : TRUE

RECURSIVE Agglomerate(_, _, _, _, _)
Agglomerate(n_clusters, linkage, metric, X, acc) ==
    IF ~(Len(acc.clusters) > n_clusters) THEN acc
    ELSE LET pass == merge_pass(linkage, metric, X, acc)
         IN  IF pass.outcome # "returned" THEN pass
             ELSE Agglomerate(n_clusters, linkage, metric, X, pass)

\* Lines 206-209: labels[idx] = cluster_id for each member of each cluster.
LabelsOf(clusters, n_samples) ==
    [p \in 1..n_samples |->
        (CHOOSE c \in 1..Len(clusters) :
            \E m \in 1..Len(clusters[c]) : clusters[c][m] = p) - 1]

\* fit on dataset X: the run of the merge loop.
HCRun(X) ==
    Agglomerate(hc_n_clusters, hc_linkage, hc_metric, X,
                [clusters |-> [p \in 1..Len(X) |-> <<p>>], history |-> <<>>,
                 trace |-> <<>>, outcome |-> "returned"])

\* fit, lines 143-214.  The merge records are appended to
\* self.merge_history as the loop goes, so they stay when it raises.
HCFit(X) ==
    \E run \in {HCRun(X)} :
        /\ hc_fits < MaxFits
        /\ hc_fits' = hc_fits + 1
        /\ hc_merge_history' = hc_merge_history \o run.history
        /\ IF run.outcome = "returned"
           THEN /\ hc_labels' = LabelsOf(run.clusters, Len(X))
                /\ hc_n_iters' = <<Len(X) - hc_n_clusters>>
           ELSE UNCHANGED <<hc_labels, hc_n_iters>>
        /\ hc_last' = [op |-> "fit", outcome |-> run.outcome, X |-> X,
                       clusters |-> run.clusters, trace |-> run.trace,
                       merges |-> Len(run.history),
                       value |-> IF run.outcome = "returned" THEN <<"self">> ELSE <<>>]
        /\ UNCHANGED <<hc_n_clusters, hc_linkage, hc_metric, hc_data>>

\* predict, lines 216-218: return self.labels.
HCPredict ==
    /\ hc_last' = [op |-> "predict", outcome |-> "returned", X |-> <<>>,
                   clusters |-> <<>>, trace |-> <<>>, merges |-> 0,
                   value |-> hc_labels]
    /\ UNCHANGED <<hc_n_clusters, hc_linkage, hc_metric, hc_labels,
                   hc_merge_history, hc_n_iters, hc_data, hc_fits>>

\* __init__, lines 123-141.
HCInit(ks, linkages, metrics, datasets) ==
    /\ hc_data \in datasets
    /\ hc_fits = 0
    /\ hc_n_clusters \in ks
    /\ hc_linkage \in linkages
    /\ hc_metric \in metrics
    /\ hc_labels = NoArray
    /\ hc_merge_history = <<>>
    /\ hc_n_iters = <<>>
    /\ hc_last = [op |-> "init", outcome |-> "returned", X |-> <<>>,
                  clusters |-> <<>>, trace |-> <<>>, merges |-> 0, value |-> <<>>]

HCFitData == HCFit(hc_data)

(***************************************************************************)
(* numpy's global random generator.                                        *)
(*                                                                         *)
(* np.random.seed, np.random.permutation, np.random.choice,                *)
(* np.random.randint and np.random.normal all act on one generator that    *)
(* belongs to the process.  The Mersenne Twister is modelled by a small    *)
(* linear congruential generator: what matters is that a draw is a         *)
(* function of the state, that it advances the state, and that seed(s)     *)
(* resets the state to a function of s.                                    *)
(***************************************************************************)
\* Number of states of the generator.
RngMod == 16

\* np.random.seed(s)
RngSeed(s) == s % RngMod
\* The state after one draw.
RngNext(state) == (5 * state + 3) % RngMod
\* One draw of an integer in 0..hi: [value, state].
RngInterval(state, hi) == [value |-> state % (hi + 1), state |-> RngNext(state)]

\* The state the process starts with (numpy seeds it from the clock).
RngStates == 0..(RngMod - 1)

Swap(q, a, b) == [q EXCEPT ![a] = q[b], ![b] = q[a]]

\* np.random.permutation(n): arange(n) shuffled in place, for i = n-1
\* down to 1: j = a draw in 0..i; swap x[i], x[j].  acc = [x, state], with
\* x[m] the entry at Python position m - 1.
RECURSIVE Shuffle(_, _)
Shuffle(i, acc) ==
    IF i < 1 THEN acc
    ELSE CHOOSE r \in {Shuffle(i - 1, [x |-> Swap(a.x, i + 1, d.value + 1), state |-> d.state]) :
                         a \in {acc}, d \in {RngInterval(acc.state, i)}} : TRUE

RngPermutation(state, n) == Shuffle(n - 1, [x |-> [m \in 1..n |-> m - 1], state |-> state])

(***************************************************************************)
(* train_test_split (utils/preprocessing.py)                               *)
(***************************************************************************)
\* Largest number of rows given to train_test_split.
MaxRows == 5

\* test_size, in hundredths (0.2 is the default of line 3).
TestPercents == {20, 30, 40, 50, 90}

\* random_state: <<>> is None, <<s>> the seed s.
SeedInputs == {<<>>, <<1>>, <<2>>, <<42>>}

\* The rows of X and y, told apart by their original index.
RowsX(n) == [i \in 1..n |-> <<"x", i - 1>>]
RowsY(n) == [i \in 1..n |-> <<"y", i - 1>>]

\* n_test of a split that forgets the "at least 1 test sample" floor.
NTestWithoutFloor(n, percent) == (n * percent) \div 100

\* Line 9: n_test = max(1, int(n_samples * test_size)); int() truncates.
NTest(n, percent) == Max(1, (n * percent) \div 100)

\* Slices indices[:k] and indices[k:].
Take(q, k) == SubSeq(q, 1, Min(k, Len(q)))
Drop(q, k) == SubSeq(q, Min(k, Len(q)) + 1, Len(q))

\* Slices that share the boundary index, indices[k-1:].
DropOneLess(q, k) == SubSeq(q, Min(k, Len(q)), Len(q))

\* Line 19: train_indices = indices[n_test:].
TrainIndices(indices, n_test) == Drop(indices, n_test)

\* Fancy indexing rows[idx].
TakeRows(rows, idx) == [k \in 1..Len(idx) |-> rows[idx[k] + 1]]

\* Lines 5-6: the generator after "if random_state is not None: seed".
SplitSeeded(state, seed) == IF seed = <<>> THEN state ELSE RngSeed(seed[1])

\* Lines 8-26, from generator state "state" (already seeded or not).
SplitBody(n, percent, seed, state) ==
    LET n_test == NTest(n, percent)
        n_train == n - n_test
        perm == RngPermutation(state, n)
        test_indices == Take(perm.x, n_test)
        train_indices == TrainIndices(perm.x, n_test)
    IN  IF n_train < 1
        THEN [op |-> "split", n |-> n, percent |-> percent, seed |-> seed,
              outcome |-> "ValueError", indices |-> <<>>,
              X_train |-> <<>>, X_test |-> <<>>, y_train |-> <<>>, y_test |-> <<>>,
              state |-> state]
        ELSE [op |-> "split", n |-> n, percent |-> percent, seed |-> seed,
              outcome |-> "returned", indices |-> perm.x,
              X_train |-> TakeRows(RowsX(n), train_indices),
              X_test |-> TakeRows(RowsX(n), test_indices),
              y_train |-> TakeRows(RowsY(n), train_indices),
              y_test |-> TakeRows(RowsY(n), test_indices),
              state |-> perm.state]

\* The whole call, run without interruption.
TrainTestSplit(n, percent, seed) ==
    \E r \in {SplitBody(n, percent, seed, SplitSeeded(np_random, seed))} :
        /\ np_random' = r.state
        /\ sp_last' = r

SplitAny ==
    \E n \in 0..MaxRows, percent \in TestPercents, seed \in SeedInputs :
        TrainTestSplit(n, percent, seed)

RngInit(states) == np_random \in states

SplitInit ==
    sp_last = [op |-> "init", n |-> 0, percent |-> 0, seed |-> <<>>,
               outcome |-> "returned", indices |-> <<>>,
               X_train |-> <<>>, X_test |-> <<>>, y_train |-> <<>>, y_test |-> <<>>,
               state |-> 0]

(***************************************************************************)
(* KNNRegressor and KNNClassifier (models/knn.py)                          *)
(***************************************************************************)
\* Largest number of training points of a KNN instance.
MaxTrain == 3
\* Largest k an instance is built with.
MaxK == 2

KNNKinds == {"KNNRegressor", "KNNClassifier"}
\* Class labels / regression targets of the training points.
Targets == {0, 1}

TrainingSets ==
    UNION {[X : [1..n -> Coords], y : [1..n -> Targets]] : n \in 1..MaxTrain}

\* The sign of a raw coordinate v once scaled with the statistics of X.
ScaledSignOf(X, v) ==
    LET d == Len(X) * v - SumSeq(X)
    IN  IF d > 0 THEN 1 ELSE IF d < 0 THEN -1 ELSE 0

\* Lines 71-74 / 152-155: the distance of the query q to every training
\* point, under the metric the name resolves to.
QueryDistances(metric, X, q) ==
    [i \in 1..Len(X) |->
        IF distance_functions_get(metric) = "cosine"
        THEN cosine_similarity_distance(ScaledSignOf(X, q), ScaledSignOf(X, X[i]))
        ELSE Abs(q - X[i])]

\* The orders of the indices 0..n-1 that sort d.
SortedOrders(d) ==
    {o \in [1..Len(d) -> 0..(Len(d) - 1)] :
        /\ \A a, b \in 1..Len(d) : a # b => o[a] # o[b]
        /\ \A a \in 1..(Len(d) - 1) : d[o[a] + 1] <= d[o[a + 1] + 1]}

\* The one sorted order that keeps equal distances in index order.
StableOrders(d) ==
    {o \in SortedOrders(d) :
        \A a \in 1..(Len(d) - 1) :
            d[o[a] + 1] = d[o[a + 1] + 1] => o[a] < o[a + 1]}

\* np.argsort(distances): the default kind is "quicksort", which numpy
\* documents as not stable (introsort, or a vectorised sorting network,
\* as the build decides); the order of equal distances is any.
\* An argsort that returns the indices in any order at all.
ArgsortUnsorted(d) ==
    {o \in [1..Len(d) -> 0..(Len(d) - 1)] : \A a, b \in 1..Len(d) : a # b => o[a] # o[b]}

Argsort(d) == SortedOrders(d)

\* np.unique(labels, return_counts=True); unique[np.argmax(counts)]: the
\* smallest label among those with the largest count.
MajorityLabel(labels) ==
    LET count(v) == Cardinality({m \in 1..Len(labels) : labels[m] = v})
        present == {labels[m] : m \in 1..Len(labels)}
        top == {v \in present : \A w \in present : count(w) <= count(v)}
    IN  CHOOSE v \in top : \A w \in top : v <= w

\* fit, lines 35-53 / 113-134: stores the (scaled) data and the targets.
KNNFit ==
    /\ knn_X_train' = knn_data.X
    /\ knn_y_train' = knn_data.y
    /\ knn_last' = [op |-> "fit", outcome |-> "returned", q |-> 0, distances |-> <<>>,
                    order |-> <<>>, k_indices |-> <<>>, prediction |-> <<>>]
    /\ UNCHANGED <<knn_kind, knn_k, knn_metric, knn_data>>

\* predict, lines 55-88 / 136-170, for one query point q.  Before fit,
\* "X - self.X_mean" fails on None.  The prediction is <<label>> for the
\* classifier and the mean <<sum, count>> for the regressor.
KNNPredict(q) ==
    /\ UNCHANGED <<knn_kind, knn_k, knn_metric, knn_X_train, knn_y_train, knn_data>>
    /\ IF knn_X_train = NoArray
       THEN knn_last' = [op |-> "predict", outcome |-> "ErrorOnNone", q |-> q,
                         distances |-> <<>>, order |-> <<>>, k_indices |-> <<>>,
                         prediction |-> <<>>]
       ELSE \E distances \in {QueryDistances(knn_metric, knn_X_train, q)} :
            \E order \in Argsort(distances) :
               LET k_indices == Take(order, knn_k)
                   k_nearest_labels == TakeRows(knn_y_train, k_indices)
               IN  knn_last' =
                     [op |-> "predict", outcome |-> "returned", q |-> q,
                      distances |-> distances, order |-> order,
                      k_indices |-> k_indices,
                      prediction |->
                        IF knn_kind = "KNNClassifier"
                        THEN <<MajorityLabel(k_nearest_labels)>>
                        ELSE <<SumSeq(k_nearest_labels), Len(k_nearest_labels)>>]

KNNPredictAny == \E q \in Coords \cup {2} : KNNPredict(q)

\* __init__, lines 17-33 / 94-111.
KNNInit(kinds, ks, metrics, sets) ==
    /\ knn_kind \in kinds
    /\ knn_k \in ks
    /\ knn_metric \in metrics
    /\ knn_data \in sets
    /\ knn_X_train = NoArray
    /\ knn_y_train = NoArray
    /\ knn_last = [op |-> "init", outcome |-> "returned", q |-> 0, distances |-> <<>>,
                   order |-> <<>>, k_indices |-> <<>>, prediction |-> <<>>]

(***************************************************************************)
(* KMeans.fit (models/clustering.py), on the one-feature datasets.  A      *)
(* centroid is the rational <<num, den>> in the coordinates of X: the      *)
(* scaling of lines 41-46 is one increasing affine map, so it changes      *)
(* neither the order of the distances nor the equality of centroids.       *)
(***************************************************************************)
\* Largest max_iters a KMeans instance is built with.
KMMaxIters == 3

\* The distance of the point x to the centroid c, as a rational.
CentroidDistance(metric, X, x, c) ==
    IF distance_functions_get(metric) = "cosine"
    THEN LET d == Len(X) * c[1] - c[2] * SumSeq(X)
             sc == IF d > 0 THEN 1 ELSE IF d < 0 THEN -1 ELSE 0
         IN  <<cosine_similarity_distance(ScaledSignOf(X, x), sc), 1>>
    ELSE <<Abs(x * c[2] - c[1]), c[2]>>

\* Lines 61-62: np.argmin(distances), the first index of the least distance.
ArgminCentroid(metric, X, x, centroids) ==
    LET d(i) == CentroidDistance(metric, X, x, centroids[i + 1])
        least == {i \in 0..(Len(centroids) - 1) :
                     \A j \in 0..(Len(centroids) - 1) : ~RatLess(d(j), d(i))}
    IN  CHOOSE i \in least : \A j \in least : i <= j

\* Lines 59-64: the label of every point.
KMAssign(metric, X, centroids) ==
    [m \in 1..Len(X) |-> ArgminCentroid(metric, X, X[m], centroids)]

\* Lines 67-77, for cluster i on: the mean of the members, or, for an empty
\* cluster, the point np.random.randint(0, len(X)) draws.  acc is
\* [centroids, state].
RECURSIVE KMUpdate(_, _, _, _, _)
KMUpdate(X, labels, n_clusters, i, acc) ==
    IF i >= n_clusters THEN acc
    ELSE LET total(members) ==
                SumSeq([m \in 1..Len(X) |-> IF m \in members THEN X[m] ELSE 0])
             next(a, d, members) ==
                IF members = {}
                THEN [centroids |-> Append(a.centroids, <<X[d.value + 1], 1>>),
                      state |-> d.state]
                ELSE [centroids |-> Append(a.centroids,
                                           <<total(members), Cardinality(members)>>),
                      state |-> a.state]
         IN  CHOOSE r \in {KMUpdate(X, labels, n_clusters, i + 1, next(a, d, members)) :
                              a \in {acc}, d \in {RngInterval(acc.state, Len(X) - 1)},
                              members \in {{m \in 1..Len(X) : labels[m] = i}}} : TRUE

\* Lines 80-84: shift < tol.  With at most MaxPoints + 1 points on Coords
\* two different centroids differ by far more than the default tol of
\* 1e-4: the shift is below tol exactly when no centroid moved.
KMConverged(old, new) == \A i \in 1..Len(old) : RatEq(old[i], new[i])

\* One pass of the loop, lines 58-84.
KMPassWith(X, n_clusters, centroids, state, labels) ==
    CHOOSE r \in {[labels |-> labels, centroids |-> upd.centroids, state |-> upd.state,
                    converged |-> KMConverged(centroids, upd.centroids)] :
                       upd \in {KMUpdate(X, labels, n_clusters, 0,
                                         [centroids |-> <<>>, state |-> state])}} : TRUE

KMIteration(metric, X, n_clusters, centroids, state) ==
    CHOOSE r \in {KMPassWith(X, n_clusters, centroids, state, labels) :
                       labels \in {KMAssign(metric, X, centroids)}} : TRUE

\* Lines 51-52: np.random.choice(n, n_clusters, replace=False) is the head
\* of a permutation of 0..n-1; the centroids are those points.
KMChoice(X, n_clusters, state) ==
    LET perm == RngPermutation(state, Len(X))
    IN  [centroids |-> [i \in 1..n_clusters |-> <<X[perm.x[i] + 1], 1>>],
         state |-> perm.state]

\* Lines 58-88 from pass "iteration" on, run without interruption:
\* [labels, centroids, n_iters, state].
RECURSIVE KMLoop(_, _, _, _, _, _, _)
KMLoop(metric, X, n_clusters, max_iters, iteration, centroids, state) ==
    LET it == KMIteration(metric, X, n_clusters, centroids, state)
    IN  IF it.converged \/ iteration + 1 >= max_iters
        THEN [labels |-> it.labels, centroids |-> it.centroids,
              n_iters |-> iteration + 1, state |-> it.state]
        ELSE KMLoop(metric, X, n_clusters, max_iters, iteration + 1, it.centroids, it.state)

\* n_clusters an instance is built with.
KMClusterCounts == 1..(MaxK + 1)
\* The datasets given to KMeans.fit.
KMDatasets == UNION {[1..n -> Coords] : n \in 1..MaxTrain}

\* Line 48: np.random.seed(self.random_state); seeding with None takes
\* fresh entropy from the operating system.
KMSeededStates(random_state) ==
    IF random_state = <<>> THEN RngStates ELSE {RngSeed(random_state[1])}

\* fit, lines 35-92, run without interruption on dataset X.
\*  - np.random.choice raises ValueError when n_clusters > len(X);
\*  - with max_iters <= 0 the loop body never runs, "labels" and
\*    "iteration" are never bound and line 86 raises UnboundLocalError,
\*    after line 52 has stored the initial centroids.
KMFit(X) ==
    \E seeded \in KMSeededStates(km_random_state) :
        /\ km_stats' = X
        /\ UNCHANGED <<km_n_clusters, km_max_iters, km_metric, km_random_state, km_data>>
        /\ IF km_n_clusters > Len(X)
           THEN /\ np_random' = seeded
                /\ km_last' = [op |-> "fit", outcome |-> "ValueError", q |-> 0, value |-> <<>>]
                /\ UNCHANGED <<km_centroids, km_labels, km_n_iters>>
           ELSE \E ch \in {KMChoice(X, km_n_clusters, seeded)} :
                IF km_max_iters <= 0
                THEN /\ np_random' = ch.state
                     /\ km_centroids' = ch.centroids
                     /\ km_last' = [op |-> "fit", outcome |-> "UnboundLocalError",
                                    q |-> 0, value |-> <<>>]
                     /\ UNCHANGED <<km_labels, km_n_iters>>
                ELSE \E run \in {KMLoop(km_metric, X, km_n_clusters, km_max_iters, 0,
                                         ch.centroids, ch.state)} :
                     /\ np_random' = run.state
                     /\ km_centroids' = run.centroids
                     /\ km_labels' = run.labels
                     /\ km_n_iters' = <<run.n_iters>>
                     /\ km_last' = [op |-> "fit", outcome |-> "returned",
                                    q |-> 0, value |-> <<>>]

KMFitData == KMFit(km_data)

\* A predict that also stores the label it computed in self.labels.
KMPredictStoresLabels(q) ==
    /\ UNCHANGED <<km_n_clusters, km_max_iters, km_metric, km_random_state, km_data,
                   km_stats, km_centroids, km_n_iters, np_random>>
    /\ IF km_stats = NoArray \/ km_centroids = NoArray
       THEN /\ km_last' = [op |-> "predict", outcome |-> "ErrorOnNone", q |-> q,
                           value |-> <<>>]
            /\ UNCHANGED km_labels
       ELSE /\ km_last' = [op |-> "predict", outcome |-> "returned", q |-> q,
                           value |-> <<ArgminCentroid(km_metric, km_stats, q, km_centroids)>>]
            /\ km_labels' = <<ArgminCentroid(km_metric, km_stats, q, km_centroids)>>

\* predict, lines 94-111, for one query point q: "X - self.X_mean" fails on
\* None before fit; otherwise the label is the index of the nearest
\* centroid.  No field is assigned.
KMPredict(q) ==
    /\ UNCHANGED <<km_n_clusters, km_max_iters, km_metric, km_random_state, km_data,
                   km_stats, km_centroids, km_labels, km_n_iters, np_random>>
    /\ km_last' =
         IF km_stats = NoArray \/ km_centroids = NoArray
         THEN [op |-> "predict", outcome |-> "ErrorOnNone", q |-> q, value |-> <<>>]
         ELSE [op |-> "predict", outcome |-> "returned", q |-> q,
               value |-> <<ArgminCentroid(km_metric, km_stats, q, km_centroids)>>]

KMPredictAny == \E q \in Coords \cup {2} : KMPredict(q)

\* __init__, lines 13-34.
KMInit(ks, budgets, metrics, seeds, datasets) ==
    /\ km_n_clusters \in ks
    /\ km_max_iters \in budgets
    /\ km_metric \in metrics
    /\ km_random_state \in seeds
    /\ km_data \in datasets
    /\ km_stats = NoArray
    /\ km_centroids = NoArray
    /\ km_labels = NoArray
    /\ km_n_iters = <<>>
    /\ km_last = [op |-> "init", outcome |-> "returned", q |-> 0, value |-> <<>>]

(***************************************************************************)
(* DBSCAN (models/clustering.py).  Points are numbered from 1 here, labels *)
(* and cluster ids from 0 as in the code; eps is in the units of           *)
(* distance_func (for the L_p metrics, eps times the std of the data).     *)
(***************************************************************************)
\* Largest min_samples an instance is built with.
MaxMinSamples == 3
\* Largest eps an instance is built with.
MaxEps == 2

\* _region_query, lines 296-301: the points within eps of idx, in index order.
\* A query that leaves out the points at distance eps exactly.
RECURSIVE RegionQueryStrict(_, _, _, _, _)
RegionQueryStrict(metric, X, idx, eps, j) ==
    IF j > Len(X) THEN <<>>
    ELSE (IF distance_func(metric, X, idx, j) < eps THEN <<j>> ELSE <<>>)
         \o RegionQueryStrict(metric, X, idx, eps, j + 1)

RECURSIVE region_query(_, _, _, _, _)
region_query(metric, X, idx, eps, j) ==
    IF j > Len(X) THEN <<>>
    ELSE (IF distance_func(metric, X, idx, j) <= eps THEN <<j>> ELSE <<>>)
         \o region_query(metric, X, idx, eps, j + 1)

\* An extension that takes every new neighbour, known or not.
NotInKeepsAll(new, old) == SelectSeq(new, LAMBDA n : TRUE)

\* The elements of new that are not in old, in order (line 315-317).
NotIn(new, old) ==
    SelectSeq(new, LAMBDA n : \A m \in 1..Len(old) : old[m] # n)

\* A labelling that overwrites the label a point already has.
LabelAlways(labels, idx, cluster_id) == [labels EXCEPT ![idx] = cluster_id]

\* Lines 319-320: if labels[neighbor_idx] == -1: labels[neighbor_idx] = cluster_id.
LabelIfNoise(labels, idx, cluster_id) ==
    IF labels[idx] = -1 THEN [labels EXCEPT ![idx] = cluster_id] ELSE labels

\* A pass that labels the neighbour but never extends the neighbour list.
ExpandPassNoGrow(metric, X, eps, min_samples, cluster_id, i, acc) ==
    [labels |-> LabelIfNoise(acc.labels, acc.neighbors[i + 1], cluster_id),
     visited |-> acc.visited \cup {acc.neighbors[i + 1]},
     neighbors |-> acc.neighbors]

\* One pass of the while loop, lines 309-322, on position i of the
\* neighbour list.  acc = [labels, visited, neighbors].
expand_pass(metric, X, eps, min_samples, cluster_id, i, acc) ==
    LET neighbor_idx == acc.neighbors[i + 1]
        fresh == neighbor_idx \notin acc.visited
        new_neighbors == region_query(metric, X, neighbor_idx, eps, 1)
        neighbors == IF fresh /\ Len(new_neighbors) >= min_samples
                     THEN acc.neighbors \o NotIn(new_neighbors, acc.neighbors)
                     ELSE acc.neighbors
        labels == LabelIfNoise(acc.labels, neighbor_idx, cluster_id)
    IN  [labels |-> labels,
         visited |-> acc.visited \cup {neighbor_idx},
         neighbors |-> neighbors]

RECURSIVE expand_loop(_, _, _, _, _, _, _)
expand_loop(metric, X, eps, min_samples, cluster_id, i, acc) ==
    IF ~(i < Len(acc.neighbors)) THEN acc
    ELSE expand_loop(metric, X, eps, min_samples, cluster_id, i + 1,
                     expand_pass(metric, X, eps, min_samples, cluster_id, i, acc))

\* Line 305: labels[point_idx] = cluster_id, then the loop.
expand_cluster(metric, X, eps, min_samples, labels, visited, point_idx, neighbors, cluster_id) ==
    expand_loop(metric, X, eps, min_samples, cluster_id, 0,
                [labels |-> [labels EXCEPT ![point_idx] = cluster_id],
                 visited |-> visited, neighbors |-> neighbors])

\* A cluster id that skips one number.
SkipClusterId(cluster_id) == cluster_id + 2

\* Line 277: cluster_id += 1.
NextClusterId(cluster_id) == cluster_id + 1

\* Lines 262-277: the loop over the points, from point i on.
\* acc = [labels, visited, cluster_id, seeds]; seeds is the ghost list of
\* the points that started a cluster.
RECURSIVE scan_points(_, _, _, _, _, _)
scan_points(metric, X, eps, min_samples, i, acc) ==
    IF i > Len(X) THEN acc
    ELSE IF i \in acc.visited
    THEN scan_points(metric, X, eps, min_samples, i + 1, acc)
    ELSE LET neighbors == region_query(metric, X, i, eps, 1)
             visited == acc.visited \cup {i}
         IN  IF Len(neighbors) < min_samples
             THEN scan_points(metric, X, eps, min_samples, i + 1,
                              [acc EXCEPT !.labels[i] = -1, !.visited = visited])
             ELSE LET e == expand_cluster(metric, X, eps, min_samples, acc.labels,
                                          visited, i, neighbors, acc.cluster_id)
                  IN  scan_points(metric, X, eps, min_samples, i + 1,
                                  [labels |-> e.labels, visited |-> e.visited,
                                   cluster_id |-> NextClusterId(acc.cluster_id),
                                   seeds |-> Append(acc.seeds, i)])

\* Lines 282-289: the indices (from 0) of the core points.
CoreSamples(metric, X, eps, min_samples) ==
    SelectSeq([j \in 1..Len(X) |-> j - 1],
              LAMBDA c : Len(region_query(metric, X, c + 1, eps, 1)) >= min_samples)

\* fit, lines 243-291.
DBFit(X) ==
    \E run \in {scan_points(db_metric, X, db_eps, db_min_samples, 1,
                             [labels |-> [p \in 1..Len(X) |-> -1], visited |-> {},
                              cluster_id |-> 0, seeds |-> <<>>])} :
        /\ db_labels' = run.labels
        /\ db_n_clusters' = <<run.cluster_id>>
        /\ db_n_noise' = <<Cardinality({p \in 1..Len(X) : run.labels[p] = -1})>>
        /\ db_core' = CoreSamples(db_metric, X, db_eps, db_min_samples)
        /\ db_last' = [op |-> "fit", outcome |-> "returned", X |-> X,
                       seeds |-> run.seeds, value |-> <<>>]
        /\ UNCHANGED <<db_eps, db_min_samples, db_metric, db_data>>

DBFitData == DBFit(db_data)

\* predict, lines 324-326: return self.labels.
DBPredict ==
    /\ db_last' = [op |-> "predict", outcome |-> "returned", X |-> <<>>,
                   seeds |-> <<>>, value |-> db_labels]
    /\ UNCHANGED <<db_eps, db_min_samples, db_metric, db_data, db_labels,
                   db_n_clusters, db_n_noise, db_core>>

\* __init__, lines 224-241.
DBInit(epss, min_sampless, metrics, datasets) ==
    /\ db_eps \in epss
    /\ db_min_samples \in min_sampless
    /\ db_metric \in metrics
    /\ db_data \in datasets
    /\ db_labels = NoArray
    /\ db_n_clusters = <<>>
    /\ db_n_noise = <<>>
    /\ db_core = <<>>
    /\ db_last = [op |-> "init", outcome |-> "returned", X |-> <<>>,
                  seeds |-> <<>>, value |-> <<>>]

(***************************************************************************)
(* PCA and SVD (models/decomposition.py).  A dataset is known by its       *)
(* number of rows and by the spectrum of its covariance matrix: the        *)
(* eigenvalues after lines 68-73 (sorted in descending order, clamped at   *)
(* 0), as integers in some unit; its number of features is the length of   *)
(* the spectrum.  Thresholds are in hundredths.                            *)
(***************************************************************************)
\* Largest number of features of a dataset given to PCA or SVD.
MaxComponents == 3
\* Largest eigenvalue of a spectrum.
MaxEigen == 2

Spectra ==
    UNION {{e \in [1..n -> 0..MaxEigen] : \A i \in 1..(n - 1) : e[i] >= e[i + 1]} :
              n \in 1..MaxComponents}

\* The datasets: n_samples rows give a covariance matrix of rank at most
\* n_samples - 1.
DecDatasets ==
    {d \in [n_samples : 1..(MaxComponents + 1), spectrum : Spectra] :
        Cardinality({i \in 1..Len(d.spectrum) : d.spectrum[i] > 0}) <= d.n_samples - 1}

\* Lines 76-81: explained_variance_ratio_, zeros when the total is (near) 0.
ExplainedRatio(eigenvalues) ==
    LET total == SumSeq(eigenvalues)
    IN  [i \in 1..Len(eigenvalues) |->
            IF total = 0 THEN <<0, 1>> ELSE <<eigenvalues[i], total>>]

\* Line 88: np.cumsum of the ratios (all over the same denominator).
CumulativeRatio(ratio) ==
    [i \in 1..Len(ratio) |-> <<SumSeq([m \in 1..i |-> ratio[m][1]]), ratio[i][2]>>]

\* Line 89: np.argmax(cumulative_variance >= threshold): the first position
\* (from 0) where the test holds, 0 when it holds nowhere.
ArgmaxReached(cumulative, threshold) ==
    LET hit == {i \in 1..Len(cumulative) :
                   cumulative[i][1] * 100 >= threshold * cumulative[i][2]}
    IN  IF hit = {} THEN 0 ELSE (CHOOSE i \in hit : \A m \in hit : i <= m) - 1

\* Lines 86-97: the threshold is looked at first, then the explicit count.
ResolveComponents(n_components, variance_threshold, ratio) ==
    IF variance_threshold # <<>>
    THEN Max(1, ArgmaxReached(CumulativeRatio(ratio), variance_threshold[1]) + 1)
    ELSE IF n_components # <<>>
    THEN Min(n_components[1], Len(ratio))
    ELSE Len(ratio)

\* The length of a[:k] for a of length len.
SliceLen(len, k) == IF k >= 0 THEN Min(k, len) ELSE Max(len + k, 0)

\* fit, lines 31-103.  np.cov of a single feature is a 0-d array and of a
\* single row is NaN: np.linalg.eig raises LinAlgError on both, after
\* mean_ and std_ were stored.
PCAFit(n_samples, eigenvalues) ==
    LET n_features == Len(eigenvalues)
        ratio == ExplainedRatio(eigenvalues)
        k == ResolveComponents(pca_n_components, pca_variance_threshold, ratio)
    IN  /\ pca_mean' = <<n_features>>
        /\ UNCHANGED <<pca_n_components, pca_variance_threshold, pca_data>>
        /\ UNCHANGED <<svd_n_components, svd_shapes, svd_is_fitted>>
        /\ IF n_features < 2 \/ n_samples < 2
           THEN /\ dec_last' = [op |-> "PCA.fit", outcome |-> "LinAlgError",
                                n_samples |-> n_samples, n_features |-> n_features,
                                value |-> <<>>]
                /\ UNCHANGED <<pca_ratio, pca_n_components_, pca_components, pca_is_fitted>>
           ELSE /\ pca_ratio' = ratio
                /\ pca_n_components_' = <<k>>
                /\ pca_components' = <<n_features, SliceLen(n_features, k)>>
                /\ pca_is_fitted' = TRUE
                /\ dec_last' = [op |-> "PCA.fit", outcome |-> "returned",
                                n_samples |-> n_samples, n_features |-> n_features,
                                value |-> <<>>]

PCAFitData == PCAFit(pca_data.n_samples, pca_data.spectrum)

\* transform, lines 105-133, of a matrix of shape (rows, columns): the
\* guard, then broadcasting against mean_ and the product with
\* components_.  No field is assigned.
PCATransform(rows, columns) ==
    /\ UNCHANGED <<pca_n_components, pca_variance_threshold, pca_data, pca_mean, pca_ratio,
                   pca_n_components_, pca_components, pca_is_fitted,
                   svd_n_components, svd_shapes, svd_is_fitted>>
    /\ dec_last' =
         IF ~pca_is_fitted
         THEN [op |-> "PCA.transform", outcome |-> "NotFitted", n_samples |-> rows,
               n_features |-> columns, value |-> <<>>]
         ELSE IF (columns # pca_mean[1] /\ columns # 1 /\ pca_mean[1] # 1)
                 \/ Max(columns, pca_mean[1]) # pca_components[1]
         THEN [op |-> "PCA.transform", outcome |-> "ValueError", n_samples |-> rows,
               n_features |-> columns, value |-> <<>>]
         ELSE [op |-> "PCA.transform", outcome |-> "returned", n_samples |-> rows,
               n_features |-> columns, value |-> <<rows, pca_components[2]>>]

PCATransformAny == \E columns \in 1..MaxComponents : PCATransform(2, columns)

\* SVD.fit_transform, lines 176-225, of a matrix of shape
\* (n_samples, n_features): len(S) = min of the two, then the [:k] slices.
SVDFitTransform(n_samples, n_features) ==
    LET len_S == Min(n_samples, n_features)
        kept == IF svd_n_components = <<>> THEN len_S
                ELSE SliceLen(len_S, Min(svd_n_components[1], len_S))
    IN  /\ svd_shapes' = <<kept, kept, kept, kept, kept>>
        /\ svd_is_fitted' = TRUE
        /\ dec_last' = [op |-> "SVD.fit_transform", outcome |-> "returned",
                        n_samples |-> n_samples, n_features |-> n_features,
                        value |-> <<n_samples, kept>>]
        /\ UNCHANGED <<pca_n_components, pca_variance_threshold, pca_data, pca_mean,
                       pca_ratio, pca_n_components_, pca_components, pca_is_fitted,
                       svd_n_components>>

SVDFitTransformData == SVDFitTransform(pca_data.n_samples, Len(pca_data.spectrum))

\* PCA.__init__, lines 9-29, and SVD.__init__, lines 167-174.
DecInit(counts, svd_counts, thresholds, datasets) ==
    /\ pca_n_components \in counts
    /\ pca_variance_threshold \in thresholds
    /\ pca_data \in datasets
    /\ pca_mean = <<>>
    /\ pca_ratio = NoArray
    /\ pca_n_components_ = <<>>
    /\ pca_components = <<>>
    /\ pca_is_fitted = FALSE
    /\ svd_n_components \in svd_counts
    /\ svd_shapes = <<>>
    /\ svd_is_fitted = FALSE
    /\ dec_last = [op |-> "init", outcome |-> "returned", n_samples |-> 0,
                   n_features |-> 0, value |-> <<>>]

(***************************************************************************)
(* classification_metrics (utils/metrics.py).  Figures are rationals       *)
(* <<num, den>>, den > 0, compared with RatEq.                             *)
(***************************************************************************)
\* Largest number of samples given to classification_metrics.
MaxLabelled == 3
\* Largest class label.
MaxLabel == 2

LabelVectors == UNION {[1..n -> 0..MaxLabel] : n \in 1..MaxLabelled}

RatAdd(a, b) == <<a[1] * b[2] + b[1] * a[2], a[2] * b[2]>>
RECURSIVE RatSum(_)
RatSum(q) == IF q = <<>> THEN <<0, 1>> ELSE RatAdd(q[1], RatSum(Tail(q)))
\* float(np.mean(q)) if q else 0.0
RatMean(q) ==
    IF q = <<>> THEN <<0, 1>> ELSE <<RatSum(q)[1], RatSum(q)[2] * Len(q)>>

\* Line 62: np.unique of both vectors, in increasing order.
Classes(y_true, y_pred) ==
    LET present == {y_true[i] : i \in 1..Len(y_true)} \cup {y_pred[i] : i \in 1..Len(y_pred)}
    IN  SelectSeq([v \in 1..(MaxLabel + 2) |-> v - 1], LAMBDA c : c \in present)

\* Lines 80-85 and 98: the one-vs-rest counts of class cls.
ConfusionCounts(y_true, y_pred, cls) ==
    LET n == Len(y_true)
        count(t, p) == Cardinality({i \in 1..n : (y_true[i] = cls) = t /\ (y_pred[i] = cls) = p})
    IN  [tp |-> count(TRUE, TRUE), fp |-> count(FALSE, TRUE),
         fn |-> count(TRUE, FALSE), tn |-> count(FALSE, FALSE)]

\* Lines 88 and 92: tp / (tp + other) if the denominator is positive, else 0.
Ratio(tp, other) == IF tp + other > 0 THEN <<tp, tp + other>> ELSE <<0, 1>>

\* Line 103: 2 * p * r / (p + r) if p + r > 0, else 0.
HarmonicMean(p, r) ==
    LET sum == RatAdd(p, r)
    IN  IF sum[1] > 0 THEN <<2 * p[1] * r[1] * sum[2], p[2] * r[2] * sum[1]>> ELSE <<0, 1>>

\* Line 75: len(classes) <= 2 and set(classes).issubset({0, 1}).
IsBinary(classes) ==
    Len(classes) <= 2 /\ \A i \in 1..Len(classes) : classes[i] \in {0, 1}

\* classification_metrics, lines 61-117, on two vectors of equal length.
ClassificationMetricsOf(y_true, y_pred) ==
    LET n == Len(y_true)
        classes == Classes(y_true, y_pred)
        counts == [c \in 1..Len(classes) |-> ConfusionCounts(y_true, y_pred, classes[c])]
        precisions == [c \in 1..Len(classes) |-> Ratio(counts[c].tp, counts[c].fp)]
        recalls == [c \in 1..Len(classes) |-> Ratio(counts[c].tp, counts[c].fn)]
        is_binary == IsBinary(classes)
        has_one == \E c \in 1..Len(classes) : classes[c] = 1
        one == ConfusionCounts(y_true, y_pred, 1)
        kept == is_binary /\ has_one
        precision_macro == RatMean(precisions)
        recall_macro == RatMean(recalls)
    IN  [called |-> TRUE,
         accuracy |-> <<Cardinality({i \in 1..n : y_true[i] = y_pred[i]}), n>>,
         precision |-> precision_macro,
         recall |-> recall_macro,
         f1_score |-> HarmonicMean(precision_macro, recall_macro),
         true_negatives |-> IF kept THEN one.tn ELSE 0,
         false_positives |-> IF kept THEN one.fp ELSE 0,
         false_negatives |-> IF kept THEN one.fn ELSE 0,
         true_positives |-> IF kept THEN one.tp ELSE 0]

ClassificationMetrics ==
    /\ mt_result' = ClassificationMetricsOf(mt_y_true, mt_y_pred)
    /\ UNCHANGED <<mt_y_true, mt_y_pred>>

MetricsInit(vectors) ==
    /\ mt_y_true \in vectors
    /\ mt_y_pred \in {v \in vectors : Len(v) = Len(mt_y_true)}
    /\ mt_result = [called |-> FALSE, accuracy |-> <<0, 1>>, precision |-> <<0, 1>>,
                    recall |-> <<0, 1>>, f1_score |-> <<0, 1>>, true_negatives |-> 0,
                    false_positives |-> 0, false_negatives |-> 0, true_positives |-> 0]

(***************************************************************************)
(* The randomized routines as the request threads of app.py run them.      *)
(* app.run starts the Werkzeug server, which serves every request on a     *)
(* thread of its own; np.random.seed, permutation, choice, randint and     *)
(* normal all work on the one generator of the process.  Each numpy call   *)
(* is atomic (the generator holds a lock for the call); a thread switch    *)
(* can fall between two calls.                                             *)
(***************************************************************************)
Callers == {1, 2}

NoLocal == [centroids |-> <<>>, iteration |-> 0]
NoResult == [outcome |-> "none", indices |-> <<>>, X_train |-> <<>>, X_test |-> <<>>,
             labels |-> <<>>, centroids |-> <<>>, n_iters |-> 0, weights |-> <<>>]

\* train_test_split(X, y, test_size, random_state) on n rows.
SplitJobs ==
    [op : {"split"}, n : {3, 4}, percent : {30}, seed : {<<1>>, <<42>>},
     X : {<<>>}, n_clusters : {0}, max_iters : {0}, n_features : {0}]
\* KMeans(n_clusters, max_iters, random_state).fit(X).
KMeansJobs ==
    [op : {"kmeans"}, n : {0}, percent : {0}, seed : {<<2>>, <<42>>},
     X : {<<0, 0, 3>>, <<0, 1, 3>>}, n_clusters : {2}, max_iters : {1, KMMaxIters},
     n_features : {0}]
\* LinearRegression(method="gradient").fit(X, y) with n_features columns.
GradientJobs ==
    [op : {"gradient"}, n : {0}, percent : {0}, seed : {<<>>},
     X : {<<>>}, n_clusters : {0}, max_iters : {0}, n_features : {1, 2}]
Jobs == SplitJobs \cup KMeansJobs \cup GradientJobs

SplitResult(r) ==
    [NoResult EXCEPT !.outcome = r.outcome, !.indices = r.indices,
                     !.X_train = r.X_train, !.X_test = r.X_test]
KMeansResult(r) ==
    [NoResult EXCEPT !.outcome = "returned", !.labels = r.labels,
                     !.centroids = r.centroids, !.n_iters = r.n_iters]

\* preprocessing.py lines 5-6: np.random.seed(random_state), if given.
SplitSeed(c) ==
    /\ rc_pc[c] = "start" /\ rc_job[c].op = "split"
    /\ np_random' = SplitSeeded(np_random, rc_job[c].seed)
    /\ rc_pc' = [rc_pc EXCEPT ![c] = "seeded"]
    /\ UNCHANGED <<rc_job, rc_local, rc_result>>

\* preprocessing.py lines 8-26: np.random.permutation and the slicing.
SplitShuffle(c) ==
    /\ rc_pc[c] = "seeded" /\ rc_job[c].op = "split"
    /\ \E r \in {SplitBody(rc_job[c].n, rc_job[c].percent, rc_job[c].seed, np_random)} :
          /\ np_random' = r.state
          /\ rc_result' = [rc_result EXCEPT ![c] = SplitResult(r)]
    /\ rc_pc' = [rc_pc EXCEPT ![c] = "done"]
    /\ UNCHANGED <<rc_job, rc_local>>

\* clustering.py lines 36-48: scaling, then np.random.seed(random_state).
KMSeed(c) ==
    /\ rc_pc[c] = "start" /\ rc_job[c].op = "kmeans"
    /\ np_random' = RngSeed(rc_job[c].seed[1])
    /\ rc_pc' = [rc_pc EXCEPT ![c] = "seeded"]
    /\ UNCHANGED <<rc_job, rc_local, rc_result>>

\* clustering.py lines 51-56: np.random.choice picks the first centroids.
KMChoose(c) ==
    /\ rc_pc[c] = "seeded" /\ rc_job[c].op = "kmeans"
    /\ \E ch \in {KMChoice(rc_job[c].X, rc_job[c].n_clusters, np_random)} :
          /\ np_random' = ch.state
          /\ rc_local' = [rc_local EXCEPT ![c] = [centroids |-> ch.centroids, iteration |-> 0]]
    /\ rc_pc' = [rc_pc EXCEPT ![c] = "loop"]
    /\ UNCHANGED <<rc_job, rc_result>>

\* clustering.py lines 58-90: one pass of the loop and, on the last one,
\* the assignments after it.
KMPass(c) ==
    /\ rc_pc[c] = "loop" /\ rc_job[c].op = "kmeans"
    /\ \E it \in {KMIteration("euclidean", rc_job[c].X, rc_job[c].n_clusters,
                                rc_local[c].centroids, np_random)} :
          /\ np_random' = it.state
          /\ rc_local' = [rc_local EXCEPT ![c] = [centroids |-> it.centroids,
                                                  iteration |-> rc_local[c].iteration + 1]]
          /\ IF it.converged \/ rc_local[c].iteration + 1 >= rc_job[c].max_iters
             THEN /\ rc_pc' = [rc_pc EXCEPT ![c] = "done"]
                  /\ rc_result' = [rc_result EXCEPT ![c] =
                        KMeansResult([labels |-> it.labels, centroids |-> it.centroids,
                                      n_iters |-> rc_local[c].iteration + 1])]
             ELSE UNCHANGED <<rc_pc, rc_result>>
    /\ UNCHANGED rc_job

\* regression.py line 50: np.random.normal(0, 0.01, n_features), one draw
\* per weight; the descent that follows is a function of these weights.
RECURSIVE NormalDraws(_, _)
NormalDraws(k, acc) ==
    IF k = 0 THEN acc
    ELSE NormalDraws(k - 1, [weights |-> Append(acc.weights, acc.state),
                             state |-> RngNext(acc.state)])

GradientInit(c) ==
    /\ rc_pc[c] = "start" /\ rc_job[c].op = "gradient"
    /\ \E d \in {NormalDraws(rc_job[c].n_features, [weights |-> <<>>, state |-> np_random])} :
          /\ np_random' = d.state
          /\ rc_result' = [rc_result EXCEPT ![c] =
                              [NoResult EXCEPT !.outcome = "returned", !.weights = d.weights]]
    /\ rc_pc' = [rc_pc EXCEPT ![c] = "done"]
    /\ UNCHANGED <<rc_job, rc_local>>

RandInit(jobs) ==
    /\ rc_job \in [Callers -> jobs]
    /\ rc_pc = [c \in Callers |-> "start"]
    /\ rc_local = [c \in Callers |-> NoLocal]
    /\ rc_result = [c \in Callers |-> NoResult]

(***************************************************************************)
(* LinearRegression._gradient_descent (models/regression.py), one pass of  *)
(* its loop per step.  The arithmetic of the data is not modelled: the     *)
(* loss of each iterate and the size of its gradient are inputs of the     *)
(* pass.  The iterates are named by their index: iterate 0 is the vector   *)
(* np.random.normal drew, iterate k + 1 the one the k-th update made.      *)
(***************************************************************************)
\* Largest loss value of an iterate; the losses are 0..MaxLoss.
MaxLoss == 3
\* Largest self.tol, in the unit of the loss values.
MaxTol == 1
\* Line 54: patience = 100.
Patience == 100
\* np.mean(error ** 2) when the data hold a nan.
NaNLoss == -1
LossValues == (0..MaxLoss) \cup {NaNLoss}
\* Line 53: best_loss = float('inf').
InfLoss == <<>>

\* A test that takes every loss for an improvement.
ImprovesAlways(loss, best_loss, tol) == loss = loss

\* Line 66: loss < best_loss - self.tol; a comparison with nan is false.
Improves(loss, best_loss, tol) ==
    /\ loss # NaNLoss
    /\ (best_loss = InfLoss \/ loss < best_loss[1] - tol)

\* The smaller of the least loss seen so far and a new loss (nan is skipped).
LeastWith(least, loss) ==
    IF loss = NaNLoss THEN least
    ELSE IF least = <<>> THEN <<loss>>
    ELSE <<Min(least[1], loss)>>

\* The call as the caller makes it, before its first line runs; pc is
\* "none" in an instance nobody calls.
NoCall ==
    [pc |-> "called", iteration |-> 0, weights |-> 0, best_weights |-> 0,
     best_loss |-> InfLoss, patience_counter |-> 0, evaluated |-> 0,
     least |-> <<>>, loss_of_best |-> <<>>, returned |-> <<>>]

\* Lines 47-56: the draw of the initial weights and the locals.
\* evaluated, least and loss_of_best are ghosts: the number of iterates
\* whose loss was computed, the least of these losses, and the loss
\* computed for the iterate held in best_weights (<<>>: none was).
GDStart ==
    /\ gd_call.pc = "called"
    /\ \E d \in {NormalDraws(gd_n_features, [weights |-> <<>>, state |-> np_random])} :
          np_random' = d.state
    /\ gd_call' = [NoCall EXCEPT !.pc = "loop"]
    /\ UNCHANGED <<gd_n_iterations, gd_tol, gd_n_features>>

\* Lines 57-92: one pass of the for loop, on an iterate of the given loss;
\* small says whether its gradient norm is below self.tol.
GDPass(loss, small) ==
    LET c == gd_call
        improved == Improves(loss, c.best_loss, gd_tol)
        patience_counter == IF improved THEN 0 ELSE c.patience_counter + 1
        seen == [c EXCEPT !.best_loss = IF improved THEN <<loss>> ELSE @,
                          !.best_weights = IF improved THEN c.weights ELSE @,
                          !.patience_counter = patience_counter,
                          !.evaluated = @ + 1,
                          !.least = LeastWith(@, loss),
                          !.loss_of_best = IF improved \/ c.best_weights = c.weights
                                           THEN <<loss>> ELSE @]
    IN  /\ c.pc = "loop" /\ c.iteration < gd_n_iterations
        /\ gd_call' = IF patience_counter >= Patience
                      THEN [seen EXCEPT !.pc = "break"]
                      ELSE IF small
                      THEN [seen EXCEPT !.weights = @ + 1, !.pc = "break"]
                      ELSE [seen EXCEPT !.weights = @ + 1, !.iteration = @ + 1]
        /\ UNCHANGED <<gd_n_iterations, gd_tol, gd_n_features, np_random>>

\* The gradient of a nan loss is nan, and "nan < self.tol" is false.
GDPassAny ==
    \E loss \in LossValues, small \in BOOLEAN :
        (loss = NaNLoss => ~small) /\ GDPass(loss, small)

\* Line 94, after a break or after the last pass: return best_weights.
GDReturn ==
    /\ \/ gd_call.pc = "break"
       \/ (gd_call.pc = "loop" /\ ~(gd_call.iteration < gd_n_iterations))
    /\ gd_call' = [gd_call EXCEPT !.pc = "returned", !.returned = <<gd_call.best_weights>>]
    /\ UNCHANGED <<gd_n_iterations, gd_tol, gd_n_features, np_random>>

\* __init__, lines 14-24, and the shape of the data of the call.
GDInit(budgets, tols, pcs) ==
    /\ gd_n_iterations \in budgets
    /\ gd_tol \in tols
    /\ gd_n_features = 2
    /\ \E pc \in pcs : gd_call = [NoCall EXCEPT !.pc = pc]

(***************************************************************************)
(* The fit calls of the clustering classes, one loop pass per step.  The   *)
(* passes are the ones the uninterrupted fits above are made of; the call  *)
(* records hold the position of the call and its local variables.  pc is   *)
(* "none" in an instance nobody calls and "called" once the caller has     *)
(* made the call, before its first line runs.                              *)
(***************************************************************************)
\* ---- KMeans.fit
NoKMCall == [pc |-> "none", iteration |-> <<>>, labels |-> <<>>]

\* The value range(self.max_iters) hands out next.
KMNextIteration == IF km_call.iteration = <<>> THEN 0 ELSE km_call.iteration[1] + 1

\* Lines 35-56: scaling, seeding and the choice of the initial centroids.
KMStepStart ==
    /\ km_call.pc = "called"
    /\ \E seeded \in KMSeededStates(km_random_state) :
          IF km_n_clusters > Len(km_data)
          THEN /\ np_random' = seeded
               /\ km_call' = [km_call EXCEPT !.pc = "ValueError"]
               /\ UNCHANGED km_centroids
          ELSE \E ch \in {KMChoice(km_data, km_n_clusters, seeded)} :
                  /\ np_random' = ch.state
                  /\ km_centroids' = ch.centroids
                  /\ km_call' = [km_call EXCEPT !.pc = "loop"]
    /\ km_stats' = km_data
    /\ UNCHANGED <<km_n_clusters, km_max_iters, km_metric, km_random_state, km_data,
                   km_labels, km_n_iters, km_last>>

\* Lines 58-86: one pass of the for loop.
KMStepPass ==
    /\ km_call.pc = "loop" /\ KMNextIteration < km_max_iters
    /\ \E it \in {KMIteration(km_metric, km_data, km_n_clusters, km_centroids, np_random)} :
          /\ np_random' = it.state
          /\ km_centroids' = it.centroids
          /\ km_call' = [pc |-> IF it.converged THEN "break" ELSE "loop",
                         iteration |-> <<KMNextIteration>>, labels |-> it.labels]
    /\ UNCHANGED <<km_n_clusters, km_max_iters, km_metric, km_random_state, km_data,
                   km_stats, km_labels, km_n_iters, km_last>>

\* Lines 88-92, after a break or after the last pass.
KMStepFinish ==
    /\ \/ km_call.pc = "break"
       \/ (km_call.pc = "loop" /\ ~(KMNextIteration < km_max_iters))
    /\ IF km_call.iteration = <<>>
       THEN /\ km_call' = [km_call EXCEPT !.pc = "UnboundLocalError"]
            /\ UNCHANGED <<km_labels, km_n_iters>>
       ELSE /\ km_call' = [km_call EXCEPT !.pc = "returned"]
            /\ km_labels' = km_call.labels
            /\ km_n_iters' = <<km_call.iteration[1] + 1>>
    /\ UNCHANGED <<km_n_clusters, km_max_iters, km_metric, km_random_state, km_data,
                   km_stats, km_centroids, km_last, np_random>>

\* ---- HierarchicalClustering.fit
NoHCCall == [pc |-> "none", clusters |-> <<>>, merges |-> 0]

\* Lines 143-163: scaling, and each point its own cluster.
HCStepStart ==
    /\ hc_call.pc = "called"
    /\ hc_call' = [pc |-> "loop", clusters |-> [p \in 1..Len(hc_data) |-> <<p>>],
                   merges |-> 0]
    /\ UNCHANGED hcVars

\* Lines 181-203: one pass of the while loop; merges counts the passes
\* that merged.
HCStepPass ==
    /\ hc_call.pc = "loop" /\ Len(hc_call.clusters) > hc_n_clusters
    /\ \E pass \in {merge_pass(hc_linkage, hc_metric, hc_data,
                               [clusters |-> hc_call.clusters, history |-> <<>>,
                                trace |-> <<>>, outcome |-> "returned"])} :
          /\ hc_merge_history' = hc_merge_history \o pass.history
          /\ hc_call' = IF pass.outcome # "returned"
                        THEN [hc_call EXCEPT !.pc = pass.outcome]
                        ELSE [hc_call EXCEPT !.clusters = pass.clusters,
                                             !.merges = @ + 1]
    /\ UNCHANGED <<hc_n_clusters, hc_linkage, hc_metric, hc_labels, hc_n_iters,
                   hc_data, hc_fits, hc_last>>

\* Lines 205-214, once the while condition is false.
HCStepFinish ==
    /\ hc_call.pc = "loop" /\ ~(Len(hc_call.clusters) > hc_n_clusters)
    /\ hc_call' = [hc_call EXCEPT !.pc = "returned"]
    /\ hc_labels' = LabelsOf(hc_call.clusters, Len(hc_data))
    /\ hc_n_iters' = <<Len(hc_data) - hc_n_clusters>>
    /\ UNCHANGED <<hc_n_clusters, hc_linkage, hc_metric, hc_merge_history,
                   hc_data, hc_fits, hc_last>>

\* ---- DBSCAN.fit and _expand_cluster
\* i is the loop variable of fit (counted from 1), expand_i the one of
\* _expand_cluster; passes counts the passes of the running expansion.
NoDBCall ==
    [pc |-> "none", i |-> 1, labels |-> <<>>, visited |-> {}, cluster_id |-> 0,
     seeds |-> <<>>, neighbors |-> <<>>, expand_i |-> 0, passes |-> 0]

\* Lines 243-262.
DBStepStart ==
    /\ db_call.pc = "called"
    /\ db_call' = [NoDBCall EXCEPT !.pc = "scan",
                                   !.labels = [p \in 1..Len(db_data) |-> -1]]
    /\ UNCHANGED dbVars

\* Lines 264-277: one pass of the for loop of fit, up to the call of
\* _expand_cluster and the first line of it (305).
DBStepScan ==
    LET c == db_call
        neighbors == region_query(db_metric, db_data, c.i, db_eps, 1)
    IN  /\ c.pc = "scan" /\ c.i <= Len(db_data)
        /\ db_call' =
             IF c.i \in c.visited THEN [c EXCEPT !.i = @ + 1]
             ELSE IF Len(neighbors) < db_min_samples
             THEN [c EXCEPT !.visited = @ \cup {c.i}, !.labels[c.i] = -1, !.i = @ + 1]
             ELSE [c EXCEPT !.visited = @ \cup {c.i}, !.labels[c.i] = c.cluster_id,
                            !.neighbors = neighbors, !.expand_i = 0, !.passes = 0,
                            !.seeds = Append(@, c.i), !.pc = "expand"]
        /\ UNCHANGED dbVars

\* Lines 308-322: one pass of the while loop of _expand_cluster.
DBStepExpand ==
    LET c == db_call
        e == expand_pass(db_metric, db_data, db_eps, db_min_samples, c.cluster_id,
                         c.expand_i, [labels |-> c.labels, visited |-> c.visited,
                                      neighbors |-> c.neighbors])
    IN  /\ c.pc = "expand" /\ c.expand_i < Len(c.neighbors)
        /\ db_call' = [c EXCEPT !.labels = e.labels, !.visited = e.visited,
                                !.neighbors = e.neighbors, !.expand_i = @ + 1,
                                !.passes = @ + 1]
        /\ UNCHANGED dbVars

\* The while condition is false: _expand_cluster returns, line 277 counts
\* the cluster and the for loop goes on.
DBStepExpanded ==
    /\ db_call.pc = "expand" /\ ~(db_call.expand_i < Len(db_call.neighbors))
    /\ db_call' = [db_call EXCEPT !.cluster_id = NextClusterId(@), !.i = @ + 1,
                                  !.pc = "scan"]
    /\ UNCHANGED dbVars

\* Lines 279-291, after the last point.
DBStepFinish ==
    /\ db_call.pc = "scan" /\ ~(db_call.i <= Len(db_data))
    /\ db_call' = [db_call EXCEPT !.pc = "returned"]
    /\ db_labels' = db_call.labels
    /\ db_n_clusters' = <<db_call.cluster_id>>
    /\ db_n_noise' = <<Cardinality({p \in 1..Len(db_data) : db_call.labels[p] = -1})>>
    /\ db_core' = CoreSamples(db_metric, db_data, db_eps, db_min_samples)
    /\ db_last' = [op |-> "fit", outcome |-> "returned", X |-> db_data,
                   seeds |-> db_call.seeds, value |-> <<>>]
    /\ UNCHANGED <<db_eps, db_min_samples, db_metric, db_data>>

\* The calls the caller makes: pcs of "none" and "called".
CallsInit(km_pcs, hc_pcs, db_pcs) ==
    /\ \E pc \in km_pcs : km_call = [NoKMCall EXCEPT !.pc = pc]
    /\ \E pc \in hc_pcs : hc_call = [NoHCCall EXCEPT !.pc = pc]
    /\ \E pc \in db_pcs : db_call = [NoDBCall EXCEPT !.pc = pc]

(***************************************************************************)
(* generate_polynomial_features (utils/preprocessing.py).  X is followed   *)
(* through one of its rows; every output column is computed row by row,    *)
(* so a column is the value it has on that row.  Feature indices count     *)
(* from 0 as in the code.                                                  *)
(***************************************************************************)
\* Largest number of features and largest degree of a call.
MaxPolyFeatures == 3
MaxDegree == 4

\* itertools.combinations_with_replacement(range(lo, n), r), line 113: the
\* non-decreasing index tuples of length r, in lexicographic order.
RECURSIVE combinations_with_replacement(_, _, _)
combinations_with_replacement(lo, n, r) ==
    IF r = 0 THEN << <<>> >>
    ELSE IF lo >= n THEN <<>>
    ELSE LET with_lo == combinations_with_replacement(lo, n, r - 1)
         IN  [k \in 1..Len(with_lo) |-> <<lo>> \o with_lo[k]]
             \o combinations_with_replacement(lo + 1, n, r)

\* Lines 115-116: is_interaction = len(set(combo)) > 1 and
\* is_power = len(set(combo)) == 1.
is_interaction(combo) == Cardinality({combo[k] : k \in 1..Len(combo)}) > 1
is_power(combo) == Cardinality({combo[k] : k \in 1..Len(combo)}) = 1

\* Lines 123-127: feature = product of X[:, idx] over the combo.
RECURSIVE FeatureProduct(_, _)
FeatureProduct(X, combo) ==
    IF combo = <<>> THEN 1 ELSE X[combo[1] + 1] * FeatureProduct(X, Tail(combo))

\* Line 135: '*'.join(name_parts), the parts being f'x{idx}'.
RECURSIVE JoinNames(_)
JoinNames(combo) ==
    IF Len(combo) = 1 THEN "x" \o ToString(combo[1])
    ELSE "x" \o ToString(combo[1]) \o "*" \o JoinNames(Tail(combo))

\* Lines 131-135: the name of a column of degree d.
TermName(combo, d) ==
    IF is_power(combo) THEN "x" \o ToString(combo[1]) \o "^" \o ToString(d)
    ELSE JoinNames(combo)

\* Lines 113-135 for the combos of degree d from position k on: the columns
\* appended, as [features, feature_names, terms]; terms records the combo
\* each column was computed from.
RECURSIVE DegreeColumns(_, _, _, _, _)
DegreeColumns(X, combos, d, interaction_only, k) ==
    IF k > Len(combos) THEN [features |-> <<>>, feature_names |-> <<>>, terms |-> <<>>]
    ELSE LET combo == combos[k]
             rest == DegreeColumns(X, combos, d, interaction_only, k + 1)
         IN  IF interaction_only /\ is_power(combo) THEN rest
             ELSE [features |-> <<FeatureProduct(X, combo)>> \o rest.features,
                   feature_names |-> <<TermName(combo, d)>> \o rest.feature_names,
                   terms |-> <<combo>> \o rest.terms]

\* Lines 108-135: the loop over d in range(2, degree + 1), from d on.
RECURSIVE HigherColumns(_, _, _, _)
HigherColumns(X, d, degree, interaction_only) ==
    IF d > degree THEN [features |-> <<>>, feature_names |-> <<>>, terms |-> <<>>]
    ELSE LET here == DegreeColumns(X, combinations_with_replacement(0, Len(X), d), d,
                                   interaction_only, 1)
             rest == HigherColumns(X, d + 1, degree, interaction_only)
         IN  [features |-> here.features \o rest.features,
              feature_names |-> here.feature_names \o rest.feature_names,
              terms |-> here.terms \o rest.terms]

\* generate_polynomial_features, lines 71-140: the bias column, the
\* original features, then the columns of degree 2 and more.
generate_polynomial_features(X, degree, include_bias, interaction_only) ==
    LET n_features == Len(X)
        higher == IF degree > 1 THEN HigherColumns(X, 2, degree, interaction_only)
                  ELSE [features |-> <<>>, feature_names |-> <<>>, terms |-> <<>>]
    IN  [features |-> (IF include_bias THEN <<1>> ELSE <<>>)
                      \o [i \in 1..n_features |-> X[i]] \o higher.features,
         feature_names |-> (IF include_bias THEN <<"1">> ELSE <<>>)
                           \o [i \in 1..n_features |-> "x" \o ToString(i - 1)]
                           \o higher.feature_names,
         terms |-> (IF include_bias THEN << <<>> >> ELSE <<>>)
                   \o [i \in 1..n_features |-> <<i - 1>>] \o higher.terms]

\* One call of generate_polynomial_features on the arguments a caller holds.
GeneratePolynomialFeatures ==
    /\ pf_last' = [op |-> "generate_polynomial_features"]
                  @@ generate_polynomial_features(pf_X, pf_degree, pf_include_bias,
                                                  pf_interaction_only)
    /\ UNCHANGED <<pf_X, pf_degree, pf_include_bias, pf_interaction_only>>

\* The arguments of the calls.
PolyInit(rows, degrees, biases, interactions) ==
    /\ pf_X \in rows
    /\ pf_degree \in degrees
    /\ pf_include_bias \in biases
    /\ pf_interaction_only \in interactions
    /\ pf_last = [op |-> "none", features |-> <<>>, feature_names |-> <<>>, terms |-> <<>>]

(***************************************************************************)
(* GaussianNaiveBayes (models/classification.py).  Means, variances and    *)
(* priors are exact rationals <<num, den>> with den > 0.                   *)
(***************************************************************************)
\* Largest number of training rows and of features.
MaxNBSamples == 3
MaxNBFeatures == 2

RatMul(a, b) == <<a[1] * b[1], a[2] * b[2]>>

\* np.unique(y), line 245: the distinct labels in increasing order.
RECURSIVE SortedSet(_)
SortedSet(S) ==
    IF S = {} THEN <<>>
    ELSE LET least == CHOOSE v \in S : \A w \in S : v <= w
         IN  <<least>> \o SortedSet(S \ {least})

\* np.mean(col) and np.var(col) of a non-empty column of integers: the
\* population variance (ddof = 0).
ColumnMean(col) == <<SumSeq(col), Len(col)>>
ColumnVar(col) ==
    <<Len(col) * SumSeq([k \in 1..Len(col) |-> col[k] * col[k]]) - SumSeq(col) * SumSeq(col),
      Len(col) * Len(col)>>

\* X[rows][:, f], for the rows in increasing order.
RECURSIVE ColumnOf(_, _, _, _)
ColumnOf(X, rows, f, k) ==
    IF k > Len(X) THEN <<>>
    ELSE (IF k \in rows THEN <<X[k][f]>> ELSE <<>>) \o ColumnOf(X, rows, f, k + 1)

\* np.var(X, axis=0).max(), line 269.
RECURSIVE RatMax(_)
RatMax(q) ==
    IF Len(q) = 1 THEN q[1]
    ELSE LET m == RatMax(Tail(q)) IN IF RatLess(q[1], m) THEN m ELSE q[1]

\* Line 269: self.epsilon_ = self.var_smoothing * np.var(X, axis=0).max().
Epsilon(var_smoothing, largest) == RatMul(var_smoothing, largest)

\* fit, lines 224-273, on rows X with labels y of the same length.
NBFit(X, y) ==
    LET n_samples == Len(X)
        n_features == Len(X[1])
        classes == SortedSet({y[k] : k \in 1..Len(y)})
        X_cls(idx) == {k \in 1..n_samples : y[k] = classes[idx]}
        all == 1..n_samples
        epsilon == Epsilon(nb_var_smoothing,
                           RatMax([f \in 1..n_features |-> ColumnVar(ColumnOf(X, all, f, 1))]))
    IN  /\ nb_classes' = classes
        /\ nb_class_prior' = [idx \in 1..Len(classes) |->
                                <<Cardinality(X_cls(idx)), n_samples>>]
        /\ nb_theta' = [idx \in 1..Len(classes) |->
                          [f \in 1..n_features |-> ColumnMean(ColumnOf(X, X_cls(idx), f, 1))]]
        /\ nb_var' = [idx \in 1..Len(classes) |->
                        [f \in 1..n_features |->
                            RatAdd(ColumnVar(ColumnOf(X, X_cls(idx), f, 1)), epsilon)]]
        /\ nb_epsilon' = <<epsilon>>
        /\ nb_is_fitted' = TRUE
        /\ nb_last' = [op |-> "fit", outcome |-> "returned", zero_division |-> FALSE]
        /\ UNCHANGED <<nb_var_smoothing, nb_X, nb_y>>

NBFitData == NBFit(nb_X, nb_y)

\* predict, lines 312-333, and the _calculate_log_likelihood it calls,
\* lines 275-310: ValueError before fit; otherwise np.log(2*pi*var) and
\* (X - mean)**2 / var are evaluated for every class and feature, and numpy
\* divides by a zero variance without raising (the result holds inf or
\* nan).  No field is assigned.
NBPredict ==
    /\ nb_last' =
         IF ~nb_is_fitted
         THEN [op |-> "predict", outcome |-> "ValueError", zero_division |-> FALSE]
         ELSE [op |-> "predict", outcome |-> "returned",
               zero_division |-> \E idx \in 1..Len(nb_var) :
                                    \E f \in 1..Len(nb_var[idx]) : nb_var[idx][f][1] = 0]
    /\ UNCHANGED <<nb_var_smoothing, nb_X, nb_y, nb_classes, nb_class_prior, nb_theta,
                   nb_var, nb_epsilon, nb_is_fitted>>

\* __init__, lines 209-222, and the training set of the caller.
NBInit(smoothings, sample_counts, feature_counts, values, labels) ==
    /\ nb_var_smoothing \in smoothings
    /\ \E n \in sample_counts, m \in feature_counts :
          /\ nb_X \in [1..n -> [1..m -> values]]
          /\ nb_y \in [1..n -> labels]
    /\ nb_classes = NoArray
    /\ nb_class_prior = NoArray
    /\ nb_theta = NoArray
    /\ nb_var = NoArray
    /\ nb_epsilon = <<>>
    /\ nb_is_fitted = FALSE
    /\ nb_last = [op |-> "init", outcome |-> "returned", zero_division |-> FALSE]

(***************************************************************************)
(* Specifications, one per component.                                      *)
(***************************************************************************)
LRIdle == LRInit({"auto"}, {1})
EstIdle == EstInit({"LinearRegression"}, {"euclidean"})
HCIdle == HCInit({2}, {"single"}, {"euclidean"}, {<<>>})
RngIdle == RngInit({0})
KNNIdle == KNNInit({"KNNRegressor"}, {5}, {"euclidean"}, {[X |-> <<0>>, y |-> <<0>>]})

RandIdle == RandInit({[op |-> "idle", n |-> 0, percent |-> 0, seed |-> <<>>, X |-> <<>>,
                        n_clusters |-> 0, max_iters |-> 0, n_features |-> 0]})

KMIdle == KMInit({3}, {300}, {"euclidean"}, {<<42>>}, {<<0>>})

DBIdle == DBInit({0}, {5}, {"euclidean"}, {<<>>})

DecIdle == DecInit({<<>>}, {<<>>}, {<<>>}, {[n_samples |-> 2, spectrum |-> <<0, 0>>]})

MetricsIdle == MetricsInit({<<0>>})

GDIdle == GDInit({0}, {0}, {"none"})

CallsIdle == CallsInit({"none"}, {"none"}, {"none"})

PolyIdle == PolyInit({<<1>>}, {2}, {TRUE}, {FALSE})

NBIdle == NBInit({<<1, 1>>}, {1}, {1}, {0}, {0})

NextLR ==
    \/ LRFitAny /\ UNCHANGED <<nbVars, pfVars, callVars, gdVars, estVars, hcVars, rngVars, spVars, knnVars, rcVars, kmVars, dbVars, decVars, mtVars>>
    \/ LRPredictAny /\ UNCHANGED <<nbVars, pfVars, callVars, gdVars, estVars, hcVars, rngVars, spVars, knnVars, rcVars, kmVars, dbVars, decVars, mtVars>>
InitLR == /\ LRInit(MethodInputs, {0, 1})
          /\ EstIdle /\ HCIdle /\ RngIdle /\ SplitInit /\ NBIdle /\ PolyIdle /\ CallsIdle /\ GDIdle /\ KNNIdle /\ RandIdle /\ KMIdle /\ DBIdle /\ DecIdle /\ MetricsIdle
SpecLR == InitLR /\ [][NextLR]_vars

NextEst ==
    \/ EstFit /\ UNCHANGED <<nbVars, pfVars, callVars, gdVars, lrVars, hcVars, rngVars, spVars, knnVars, rcVars, kmVars, dbVars, decVars, mtVars>>
    \/ EstPredict /\ UNCHANGED <<nbVars, pfVars, callVars, gdVars, lrVars, hcVars, rngVars, spVars, knnVars, rcVars, kmVars, dbVars, decVars, mtVars>>
InitEst == /\ EstInit(Kinds, MetricInputs)
           /\ LRIdle /\ HCIdle /\ RngIdle /\ SplitInit /\ NBIdle /\ PolyIdle /\ CallsIdle /\ GDIdle /\ KNNIdle /\ RandIdle /\ KMIdle /\ DBIdle /\ DecIdle /\ MetricsIdle
SpecEst == InitEst /\ [][NextEst]_vars

NextHC ==
    \/ HCFitData /\ UNCHANGED <<nbVars, pfVars, callVars, gdVars, lrVars, estVars, rngVars, spVars, knnVars, rcVars, kmVars, dbVars, decVars, mtVars>>
    \/ HCPredict /\ UNCHANGED <<nbVars, pfVars, callVars, gdVars, lrVars, estVars, rngVars, spVars, knnVars, rcVars, kmVars, dbVars, decVars, mtVars>>
InitHC == /\ HCInit(0..MaxClusters, LinkageInputs, {"euclidean", "cosine"}, Datasets)
          /\ LRIdle /\ EstIdle /\ RngIdle /\ SplitInit /\ NBIdle /\ PolyIdle /\ CallsIdle /\ GDIdle /\ KNNIdle /\ RandIdle /\ KMIdle /\ DBIdle /\ DecIdle /\ MetricsIdle
SpecHC == InitHC /\ [][NextHC]_vars

NextSplit == SplitAny /\ UNCHANGED <<nbVars, pfVars, callVars, gdVars, lrVars, estVars, hcVars, knnVars, rcVars, kmVars, dbVars, decVars, mtVars>>
InitSplit == /\ RngInit(RngStates) /\ SplitInit /\ NBIdle /\ PolyIdle /\ CallsIdle /\ GDIdle
             /\ LRIdle /\ EstIdle /\ HCIdle /\ KNNIdle /\ RandIdle /\ KMIdle /\ DBIdle /\ DecIdle /\ MetricsIdle
SpecSplit == InitSplit /\ [][NextSplit]_vars

NextKNN ==
    \/ KNNFit /\ UNCHANGED <<nbVars, pfVars, callVars, gdVars, lrVars, estVars, hcVars, rngVars, spVars, rcVars, kmVars, dbVars, decVars, mtVars>>
    \/ KNNPredictAny /\ UNCHANGED <<nbVars, pfVars, callVars, gdVars, lrVars, estVars, hcVars, rngVars, spVars, rcVars, kmVars, dbVars, decVars, mtVars>>
InitKNN == /\ KNNInit(KNNKinds, 1..MaxK, {"euclidean", "manhattan", "cosine"}, TrainingSets)
           /\ LRIdle /\ EstIdle /\ HCIdle /\ RngIdle /\ SplitInit /\ NBIdle /\ PolyIdle /\ CallsIdle /\ GDIdle /\ RandIdle /\ KMIdle /\ DBIdle /\ DecIdle /\ MetricsIdle
SpecKNN == InitKNN /\ [][NextKNN]_vars

NextRand ==
    \/ \E c \in Callers : SplitSeed(c) /\ UNCHANGED <<nbVars, pfVars, callVars, gdVars, lrVars, estVars, hcVars, spVars, knnVars, kmVars, dbVars, decVars, mtVars>>
    \/ \E c \in Callers : SplitShuffle(c) /\ UNCHANGED <<nbVars, pfVars, callVars, gdVars, lrVars, estVars, hcVars, spVars, knnVars, kmVars, dbVars, decVars, mtVars>>
    \/ \E c \in Callers : KMSeed(c) /\ UNCHANGED <<nbVars, pfVars, callVars, gdVars, lrVars, estVars, hcVars, spVars, knnVars, kmVars, dbVars, decVars, mtVars>>
    \/ \E c \in Callers : KMChoose(c) /\ UNCHANGED <<nbVars, pfVars, callVars, gdVars, lrVars, estVars, hcVars, spVars, knnVars, kmVars, dbVars, decVars, mtVars>>
    \/ \E c \in Callers : KMPass(c) /\ UNCHANGED <<nbVars, pfVars, callVars, gdVars, lrVars, estVars, hcVars, spVars, knnVars, kmVars, dbVars, decVars, mtVars>>
    \/ \E c \in Callers : GradientInit(c) /\ UNCHANGED <<nbVars, pfVars, callVars, gdVars, lrVars, estVars, hcVars, spVars, knnVars, kmVars, dbVars, decVars, mtVars>>
InitRand == /\ RngInit(RngStates) /\ RandInit(Jobs)
            /\ LRIdle /\ EstIdle /\ HCIdle /\ SplitInit /\ NBIdle /\ PolyIdle /\ CallsIdle /\ GDIdle /\ KNNIdle /\ KMIdle /\ DBIdle /\ DecIdle /\ MetricsIdle
SpecRand == InitRand /\ [][NextRand]_vars

NextKM ==
    \/ KMFitData /\ UNCHANGED <<nbVars, pfVars, callVars, gdVars, lrVars, estVars, hcVars, spVars, knnVars, rcVars, dbVars, decVars, mtVars>>
    \/ KMPredictAny /\ UNCHANGED <<nbVars, pfVars, callVars, gdVars, lrVars, estVars, hcVars, spVars, knnVars, rcVars, dbVars, decVars, mtVars>>
InitKM == /\ KMInit(KMClusterCounts, 0..KMMaxIters, {"euclidean", "cosine"},
                    {<<1>>, <<42>>}, KMDatasets)
          /\ RngInit({0})
          /\ LRIdle /\ EstIdle /\ HCIdle /\ SplitInit /\ NBIdle /\ PolyIdle /\ CallsIdle /\ GDIdle /\ KNNIdle /\ RandIdle /\ DBIdle /\ DecIdle /\ MetricsIdle
SpecKM == InitKM /\ [][NextKM]_vars

NextDB ==
    \/ DBFitData /\ UNCHANGED <<nbVars, pfVars, callVars, gdVars, lrVars, estVars, hcVars, rngVars, spVars, knnVars, rcVars, kmVars, decVars, mtVars>>
    \/ DBPredict /\ UNCHANGED <<nbVars, pfVars, callVars, gdVars, lrVars, estVars, hcVars, rngVars, spVars, knnVars, rcVars, kmVars, decVars, mtVars>>
\* Seven points on a line, in any order: with eps = 1 and min_samples = 4
\* the points at 1 and at 3 are core points of two clusters and the point
\* at 2 is a border point of both.
SharedBorderLayout == <<0, 0, 1, 2, 3, 4, 4>>
Orderings(q) ==
    LET values == {q[k] : k \in 1..Len(q)}
    IN  {X \in [1..Len(q) -> values] :
            \A v \in values : Cardinality({k \in 1..Len(q) : X[k] = v})
                                  = Cardinality({k \in 1..Len(q) : q[k] = v})}
\* Five points on a line, in any order.  With eps 1 and min_samples 3 the
\* point at 1 is the one core point, its two neighbours are border points
\* and the points at 5 are noise; with min_samples 2 the first three form a
\* chain of core points and the points at 5 a second cluster.
ChainAndPairLayout == <<0, 1, 2, 5, 5>>
InitDB == /\ \/ DBInit(0..MaxEps, 1..MaxMinSamples, {"euclidean", "cosine"}, Datasets)
             \/ DBInit({1}, {2, 3}, {"euclidean"}, Orderings(ChainAndPairLayout))
          /\ LRIdle /\ EstIdle /\ HCIdle /\ RngIdle /\ SplitInit /\ NBIdle /\ PolyIdle /\ CallsIdle /\ GDIdle /\ KNNIdle /\ RandIdle
          /\ KMIdle /\ DecIdle /\ MetricsIdle
SpecDB == InitDB /\ [][NextDB]_vars

NextDec ==
    \/ PCAFitData /\ UNCHANGED <<nbVars, pfVars, callVars, gdVars, lrVars, estVars, hcVars, rngVars, spVars, knnVars, rcVars, kmVars, dbVars, mtVars>>
    \/ PCATransformAny /\ UNCHANGED <<nbVars, pfVars, callVars, gdVars, lrVars, estVars, hcVars, rngVars, spVars, knnVars, rcVars, kmVars, dbVars, mtVars>>
    \/ SVDFitTransformData /\ UNCHANGED <<nbVars, pfVars, callVars, gdVars, lrVars, estVars, hcVars, rngVars, spVars, knnVars, rcVars, kmVars, dbVars, mtVars>>
InitDec == /\ DecInit({<<>>, <<-1>>, <<0>>, <<1>>, <<2>>, <<MaxComponents + 1>>},
                      {<<>>, <<0>>, <<2>>},
                      {<<>>, <<50>>, <<90>>, <<100>>},
                      DecDatasets)
           /\ LRIdle /\ EstIdle /\ HCIdle /\ RngIdle /\ SplitInit /\ NBIdle /\ PolyIdle /\ CallsIdle /\ GDIdle /\ KNNIdle /\ RandIdle
           /\ KMIdle /\ DBIdle /\ MetricsIdle
SpecDec == InitDec /\ [][NextDec]_vars

NextMetrics ==
    ClassificationMetrics
        /\ UNCHANGED <<nbVars, pfVars, callVars, gdVars, lrVars, estVars, hcVars, rngVars, spVars, knnVars, rcVars, kmVars,
                       dbVars, decVars>>
InitMetrics == /\ MetricsInit(LabelVectors)
               /\ LRIdle /\ EstIdle /\ HCIdle /\ RngIdle /\ SplitInit /\ NBIdle /\ PolyIdle /\ CallsIdle /\ GDIdle /\ KNNIdle
               /\ RandIdle /\ KMIdle /\ DBIdle /\ DecIdle
SpecMetrics == InitMetrics /\ [][NextMetrics]_vars

GDRest == <<pfVars, nbVars, callVars, lrVars, estVars, hcVars, spVars, knnVars, rcVars, kmVars, dbVars, decVars, mtVars>>
NextGD ==
    \/ GDStart /\ UNCHANGED GDRest
    \/ GDPassAny /\ UNCHANGED GDRest
    \/ GDReturn /\ UNCHANGED GDRest
InitGD == /\ GDInit({0, 1, 3, Patience + 2}, 0..MaxTol, {"called"})
          /\ LRIdle /\ EstIdle /\ HCIdle /\ RngIdle /\ SplitInit /\ NBIdle /\ PolyIdle /\ CallsIdle /\ KNNIdle /\ RandIdle
          /\ KMIdle /\ DBIdle /\ DecIdle /\ MetricsIdle
SpecGD == InitGD /\ [][NextGD]_vars

PolyRest == <<nbVars, callVars, gdVars, lrVars, estVars, hcVars, rngVars, spVars, knnVars, rcVars, kmVars, dbVars, decVars, mtVars>>
NextPoly == GeneratePolynomialFeatures /\ UNCHANGED PolyRest
InitPoly == /\ PolyInit(UNION {[1..n -> 1..3] : n \in 1..MaxPolyFeatures}, 0..MaxDegree,
                        BOOLEAN, BOOLEAN)
            /\ LRIdle /\ EstIdle /\ HCIdle /\ RngIdle /\ SplitInit /\ NBIdle /\ CallsIdle /\ GDIdle
            /\ KNNIdle /\ RandIdle /\ KMIdle /\ DBIdle /\ DecIdle /\ MetricsIdle
SpecPoly == InitPoly /\ [][NextPoly]_vars

NBRest == <<pfVars, callVars, gdVars, lrVars, estVars, hcVars, rngVars, spVars, knnVars, rcVars, kmVars, dbVars, decVars, mtVars>>
NextNB ==
    \/ NBFitData /\ UNCHANGED NBRest
    \/ NBPredict /\ UNCHANGED NBRest
InitNB == /\ NBInit({<<1, 1000>>, <<1, 1>>}, 1..MaxNBSamples, 1..MaxNBFeatures, {0, 1}, {0, 1})
          /\ LRIdle /\ EstIdle /\ HCIdle /\ RngIdle /\ SplitInit /\ PolyIdle /\ CallsIdle /\ GDIdle
          /\ KNNIdle /\ RandIdle /\ KMIdle /\ DBIdle /\ DecIdle /\ MetricsIdle
SpecNB == InitNB /\ [][NextNB]_vars

\* DBSCAN.fit, pass by pass.
DBStepsRest == <<pfVars, nbVars, km_call, hc_call, gdVars, lrVars, estVars, hcVars, rngVars, spVars, knnVars, rcVars, kmVars, decVars, mtVars>>
NextDBSteps ==
    \/ DBStepStart /\ UNCHANGED DBStepsRest
    \/ DBStepScan /\ UNCHANGED DBStepsRest
    \/ DBStepExpand /\ UNCHANGED DBStepsRest
    \/ DBStepExpanded /\ UNCHANGED DBStepsRest
    \/ DBStepFinish /\ UNCHANGED DBStepsRest
InitDBSteps ==
    /\ \/ DBInit(0..MaxEps, 1..MaxMinSamples, {"euclidean", "cosine"}, Datasets)
       \/ DBInit({1}, {4}, {"euclidean"}, Orderings(SharedBorderLayout))
    /\ CallsInit({"none"}, {"none"}, {"called"})
    /\ LRIdle /\ EstIdle /\ HCIdle /\ RngIdle /\ SplitInit /\ NBIdle /\ PolyIdle /\ GDIdle /\ KNNIdle /\ RandIdle
    /\ KMIdle /\ DecIdle /\ MetricsIdle
SpecDBSteps == InitDBSteps /\ [][NextDBSteps]_vars

\* One call of one of the four iterative algorithms, pass by pass.  The
\* call runs on the caller's thread without waiting for anything, so a
\* step that can be taken is taken: weak fairness of the next-state
\* relation.
LoopsRest == <<lrVars, estVars, spVars, knnVars, rcVars, decVars, mtVars>>
NextLoops ==
    \/ GDStart /\ UNCHANGED <<nbVars, pfVars, LoopsRest, callVars, kmVars, hcVars, dbVars>>
    \/ GDPassAny /\ UNCHANGED <<nbVars, pfVars, LoopsRest, callVars, kmVars, hcVars, dbVars>>
    \/ GDReturn /\ UNCHANGED <<nbVars, pfVars, LoopsRest, callVars, kmVars, hcVars, dbVars>>
    \/ KMStepStart /\ UNCHANGED <<nbVars, pfVars, LoopsRest, gdVars, hc_call, db_call, hcVars, dbVars>>
    \/ KMStepPass /\ UNCHANGED <<nbVars, pfVars, LoopsRest, gdVars, hc_call, db_call, hcVars, dbVars>>
    \/ KMStepFinish /\ UNCHANGED <<nbVars, pfVars, LoopsRest, gdVars, hc_call, db_call, hcVars, dbVars>>
    \/ HCStepStart /\ UNCHANGED <<nbVars, pfVars, LoopsRest, gdVars, km_call, db_call, kmVars, dbVars, rngVars>>
    \/ HCStepPass /\ UNCHANGED <<nbVars, pfVars, LoopsRest, gdVars, km_call, db_call, kmVars, dbVars, rngVars>>
    \/ HCStepFinish /\ UNCHANGED <<nbVars, pfVars, LoopsRest, gdVars, km_call, db_call, kmVars, dbVars, rngVars>>
    \/ DBStepStart /\ UNCHANGED <<nbVars, pfVars, LoopsRest, gdVars, km_call, hc_call, kmVars, hcVars, rngVars>>
    \/ DBStepScan /\ UNCHANGED <<nbVars, pfVars, LoopsRest, gdVars, km_call, hc_call, kmVars, hcVars, rngVars>>
    \/ DBStepExpand /\ UNCHANGED <<nbVars, pfVars, LoopsRest, gdVars, km_call, hc_call, kmVars, hcVars, rngVars>>
    \/ DBStepExpanded /\ UNCHANGED <<nbVars, pfVars, LoopsRest, gdVars, km_call, hc_call, kmVars, hcVars, rngVars>>
    \/ DBStepFinish /\ UNCHANGED <<nbVars, pfVars, LoopsRest, gdVars, km_call, hc_call, kmVars, hcVars, rngVars>>
\* Largest dataset given to the clustering calls here.
MaxLoopPoints == 3
LoopDatasets == UNION {[1..n -> Coords] : n \in 0..MaxLoopPoints}
InitLoops ==
    /\ LRIdle /\ EstIdle /\ RngIdle /\ SplitInit /\ NBIdle /\ PolyIdle /\ KNNIdle /\ RandIdle /\ DecIdle /\ MetricsIdle
    /\ \/ /\ GDInit({0, 1, Patience + 2}, {MaxTol}, {"called"})
          /\ CallsIdle /\ KMIdle /\ HCIdle /\ DBIdle
       \/ /\ KMInit(KMClusterCounts, 0..KMMaxIters, {"euclidean", "cosine"}, {<<42>>},
                     LoopDatasets)
          /\ CallsInit({"called"}, {"none"}, {"none"})
          /\ GDIdle /\ HCIdle /\ DBIdle
       \/ /\ HCInit({-1, 0, 1, MaxClusters}, LinkageInputs, {"euclidean", "cosine"},
                     LoopDatasets)
          /\ CallsInit({"none"}, {"called"}, {"none"})
          /\ GDIdle /\ KMIdle /\ DBIdle
       \/ /\ DBInit(0..MaxEps, 1..MaxMinSamples, {"euclidean", "cosine"}, LoopDatasets)
          /\ CallsInit({"none"}, {"none"}, {"called"})
          /\ GDIdle /\ KMIdle /\ HCIdle
SpecLoops == InitLoops /\ [][NextLoops]_vars /\ WF_vars(NextLoops)

\* One caller that builds one model of class est_kind and calls its fit
\* and its predict / transform in any order; LinearRegression, KMeans and
\* PCA in detail, the other classes by their life cycle.
DetailedKinds == {"LinearRegression", "KMeans", "PCA"}
FrameRest == <<nbVars, pfVars, callVars, gdVars, rngVars, spVars, knnVars, rcVars, hcVars, dbVars, mtVars>>
NextFrame ==
    \/ est_kind = "LinearRegression" /\ LRFitAny
          /\ UNCHANGED <<estVars, kmVars, decVars, FrameRest>>
    \/ est_kind = "LinearRegression" /\ LRPredictAny
          /\ UNCHANGED <<estVars, kmVars, decVars, FrameRest>>
    \/ est_kind = "KMeans" /\ KMFitData
          /\ UNCHANGED <<nbVars, pfVars, callVars, gdVars, estVars, lrVars, decVars, spVars, knnVars, rcVars, hcVars, dbVars, mtVars>>
    \/ est_kind = "KMeans" /\ KMPredictAny
          /\ UNCHANGED <<nbVars, pfVars, callVars, gdVars, estVars, lrVars, decVars, spVars, knnVars, rcVars, hcVars, dbVars, mtVars>>
    \/ est_kind = "PCA" /\ PCAFitData
          /\ UNCHANGED <<estVars, lrVars, kmVars, FrameRest>>
    \/ est_kind = "PCA" /\ PCATransformAny
          /\ UNCHANGED <<estVars, lrVars, kmVars, FrameRest>>
    \/ est_kind \notin DetailedKinds /\ EstFit
          /\ UNCHANGED <<lrVars, kmVars, decVars, FrameRest>>
    \/ est_kind \notin DetailedKinds /\ EstPredict
          /\ UNCHANGED <<lrVars, kmVars, decVars, FrameRest>>
InitFrame ==
    /\ EstInit(Kinds, {"euclidean"})
    /\ IF est_kind = "LinearRegression" THEN LRInit({"auto", "svd"}, {1}) ELSE LRIdle
    /\ IF est_kind = "KMeans"
       THEN KMInit(KMClusterCounts, 0..KMMaxIters, {"euclidean", "cosine"},
                   {<<1>>, <<42>>}, KMDatasets)
       ELSE KMIdle
    /\ IF est_kind = "PCA"
       THEN DecInit({<<>>, <<0>>, <<1>>, <<MaxComponents + 1>>}, {<<>>},
                    {<<>>, <<50>>, <<100>>}, DecDatasets)
       ELSE DecIdle
    /\ HCIdle /\ RngIdle /\ SplitInit /\ NBIdle /\ PolyIdle /\ CallsIdle /\ GDIdle /\ KNNIdle /\ RandIdle /\ DBIdle /\ MetricsIdle
SpecFrame == InitFrame /\ [][NextFrame]_vars

(***************************************************************************)
(* Properties.                                                             *)
(***************************************************************************)

\* A dataset (nX rows of X, nY rows of y) that fit has to refuse.
InvalidFitInput(nX, nY) == nX = 0 \/ nY = 0 \/ nX # nY

\* C1: LinearRegression.fit on empty X or y, or on X and y of different
\* row counts, ends with an error: it does not return normally (and so
\* does not newly mark the model fitted).
C1_FitRefusesInvalidInput ==
    (lr_last.op = "fit" /\ InvalidFitInput(lr_last.nX, lr_last.nY))
        => lr_last.outcome # "returned"

\* C2: predict / transform on an instance that was never fitted ends with
\* an error, whatever the class (the NotFitted error of the guard, or at
\* least the error numpy raises on the missing parameters); it never
\* returns, neither None nor anything else.
C2_PredictBeforeFitRaises ==
    (est_last.op = "predict" /\ ~est_params)
        => (est_last.outcome \in {"NotFitted", "ErrorOnNone"}
            /\ est_last.value = None)

\* C3: when a call looks up a metric name that is not one of the five
\* known names, the call ends with the InvalidInput error; no other
\* metric is used in its place.
C3_UnknownMetricRefused ==
    (est_last.resolved /\ est_metric \notin MetricNames)
        => (est_last.outcome = "InvalidInput" /\ est_last.metric_used = None)

\* C4: HierarchicalClustering.fit with a linkage name other than single,
\* complete or average ends with the error of the linkage check, for every
\* non-empty dataset and every n_clusters >= 1.
C4_BadLinkageRefused ==
    (hc_last.op = "fit" /\ hc_linkage \notin Linkages
        /\ Len(hc_last.X) >= 1 /\ hc_n_clusters >= 1)
        => hc_last.outcome = "ValueError"

\* C8: when the solver call of LinearRegression.fit raises, fit returns
\* normally, the model is fitted, and the weights are the intercept-only
\* fallback: n_features + 1 entries, the first the mean of the scaled
\* target, the others zero.
C8_FallbackOnSolverError ==
    (lr_last.op = "fit" /\ lr_last.solver_raised)
        => /\ lr_last.outcome = "returned"
           /\ lr_is_fitted
           /\ Len(lr_weights) = lr_last.nF + 1
           /\ lr_weights[1] = "mean_y_scaled"
           /\ \A i \in 2..Len(lr_weights) : lr_weights[i] = "zero"

\* C8 witness: a fit whose solver raised (on rows that do not match, on
\* a failed linalg call or on an empty dataset) and that left a fitted
\* model.
C8_Witness ==
    /\ lr_last.op = "fit"
    /\ lr_last.solver_raised
    /\ lr_last.path = "normal"
    /\ lr_is_fitted
    /\ lr_weights = <<"mean_y_scaled", "zero", "zero">>

\* The solver path the configured method names, for n_samples rows and
\* n_features columns.
ConfiguredPath(configured, n_samples, n_features) ==
    IF configured = "auto"
    THEN IF n_samples > AutoGradientThreshold \/ n_samples < n_features
         THEN "gradient" ELSE "normal"
    ELSE configured

\* C9: every fit on a well-formed dataset runs the solver path named by
\* the method given at construction (auto resolved on this call's shape),
\* and fit leaves the configured method unchanged.
C9_PathFollowsConfiguredMethod ==
    (lr_last.op = "fit" /\ lr_configured \in Methods
        /\ ~InvalidFitInput(lr_last.nX, lr_last.nY))
        => /\ lr_last.path = ConfiguredPath(lr_configured, lr_last.nX, lr_last.nF)
           /\ lr_method = lr_configured

\* Python's round(num / den): to the nearest integer, halves to the even one.
RoundHalfEven(num, den) ==
    LET q == num \div den
        r == num % den
    IN  IF 2 * r < den THEN q
        ELSE IF 2 * r > den THEN q + 1
        ELSE IF q % 2 = 0 THEN q ELSE q + 1

\* What a split into n_test test rows and the rest has to look like.
SplitSizesAre(n_test) ==
    IF sp_last.n - n_test < 1
    THEN sp_last.outcome = "ValueError"
    ELSE /\ sp_last.outcome = "returned"
         /\ Len(sp_last.X_test) = n_test
         /\ Len(sp_last.y_test) = n_test
         /\ Len(sp_last.X_train) = sp_last.n - n_test
         /\ Len(sp_last.y_train) = sp_last.n - n_test

IndexSet(rows) == {rows[k][2] : k \in 1..Len(rows)}

\* C6: the split draws one permutation of 0..n-1; the test rows are the
\* rows at its first n_test indices and the training rows those at the
\* remaining ones, in that order; the two index sets are disjoint and
\* cover 0..n-1; row k of X_train and of y_train have the same original
\* index (and so for the test rows).
C6_PartitionOfOnePermutation ==
    (sp_last.op = "split" /\ sp_last.outcome = "returned")
        => LET n == sp_last.n
               idx == sp_last.indices
               n_test == Len(sp_last.X_test)
           IN  /\ Len(idx) = n
               /\ {idx[k] : k \in 1..n} = 0..(n - 1)
               /\ \A k \in 1..n_test : sp_last.X_test[k] = <<"x", idx[k]>>
               /\ Len(sp_last.X_train) = n - n_test
               /\ \A k \in 1..(n - n_test) :
                      sp_last.X_train[k] = <<"x", idx[n_test + k]>>
               /\ IndexSet(sp_last.X_test) \cap IndexSet(sp_last.X_train) = {}
               /\ IndexSet(sp_last.X_test) \cup IndexSet(sp_last.X_train) = 0..(n - 1)
               /\ Len(sp_last.y_train) = Len(sp_last.X_train)
               /\ Len(sp_last.y_test) = Len(sp_last.X_test)
               /\ \A k \in 1..Len(sp_last.X_train) :
                      sp_last.y_train[k] = <<"y", sp_last.X_train[k][2]>>
               /\ \A k \in 1..Len(sp_last.X_test) :
                      sp_last.y_test[k] = <<"y", sp_last.X_test[k][2]>>

\* C6 witness: a split of five rows whose permutation moves rows, with
\* two test rows and three training rows.
C6_Witness ==
    /\ sp_last.op = "split" /\ sp_last.outcome = "returned"
    /\ sp_last.n = 5
    /\ Len(sp_last.X_test) = 2 /\ Len(sp_last.X_train) = 3
    /\ sp_last.indices # <<0, 1, 2, 3, 4>>
    /\ sp_last.X_test[1] # <<"x", 0>>

\* C10: for each query, predict selects the k training indices with the
\* smallest distances, equal distances in original index order: the
\* selection is the first k entries of the stable sort of the distances.
C10_NeighboursInStableOrder ==
    (knn_last.op = "predict" /\ knn_last.outcome = "returned")
        => \E o \in StableOrders(knn_last.distances) :
              knn_last.k_indices = Take(o, knn_k)

\* What a seeded call returns when it draws from a generator of its own,
\* seeded with its random_state.
AloneResult(job) ==
    IF job.op = "split"
    THEN SplitResult(SplitBody(job.n, job.percent, job.seed, RngSeed(job.seed[1])))
    ELSE LET ch == KMChoice(job.X, job.n_clusters, RngSeed(job.seed[1]))
         IN  KMeansResult(KMLoop("euclidean", job.X, job.n_clusters, job.max_iters, 0,
                                 ch.centroids, ch.state))

\* C7: a seeded randomized routine returns what its inputs and its seed
\* determine, whatever other randomized calls run interleaved with it.
C7_SeededCallsAreDeterministic ==
    \A c \in Callers :
        (rc_pc[c] = "done" /\ rc_job[c].op \in {"split", "kmeans"})
            => rc_result[c] = AloneResult(rc_job[c])

\* The last call was KNNClassifier(k=1).predict, after fit, on a point of
\* the training set.
OneNearestOnTrainingPoint ==
    /\ knn_kind = "KNNClassifier" /\ knn_k = 1
    /\ knn_last.op = "predict" /\ knn_last.outcome = "returned"
    /\ \E i \in 1..Len(knn_X_train) : knn_X_train[i] = knn_last.q

\* The prediction is the label of every training point equal to the query.
PredictsOwnLabel ==
    \A i \in 1..Len(knn_X_train) :
        knn_X_train[i] = knn_last.q => knn_last.prediction = <<knn_y_train[i]>>

\* C11 as stated: KNNClassifier with k=1 predicts, for each point of its
\* training set, that point's own label, for every training set and every
\* supported metric.
C11_OwnLabelAlways == OneNearestOnTrainingPoint => PredictsOwnLabel

\* Equal training points carry equal labels.
DuplicatesAgree(X, y) ==
    \A i, j \in 1..Len(X) : X[i] = X[j] => y[i] = y[j]

\* C11 amended: under the four L_p metrics (where distance 0 means the
\* same point) and with equal training points labelled alike, k=1 predicts
\* each training point's own label.
C11_OwnLabelUnderLpMetric ==
    (/\ OneNearestOnTrainingPoint
     /\ distance_functions_get(knn_metric) # "cosine"
     /\ DuplicatesAgree(knn_X_train, knn_y_train))
        => PredictsOwnLabel

\* C11 witness: a k=1 prediction on a training point that has a duplicate
\* with the same label and a neighbour with the other label.
C11_Witness ==
    /\ OneNearestOnTrainingPoint
    /\ distance_functions_get(knn_metric) # "cosine"
    /\ DuplicatesAgree(knn_X_train, knn_y_train)
    /\ \E i, j, m \in 1..Len(knn_X_train) :
          /\ i # j /\ knn_X_train[i] = knn_last.q /\ knn_X_train[j] = knn_last.q
          /\ knn_y_train[m] # knn_y_train[i]
    /\ PredictsOwnLabel

\* C12: for every iteration budget, a KMeans.fit on a dataset with at least
\* n_clusters points returns normally with labels, centroids and
\* n_iters_ <= max_iters set.
C12_FitReturnsWithinBudget ==
    (km_last.op = "fit" /\ km_n_clusters <= Len(km_data))
        => /\ km_last.outcome = "returned"
           /\ km_labels # NoArray /\ km_centroids # NoArray
           /\ km_n_iters # <<>> /\ km_n_iters[1] <= km_max_iters

\* The clusters partition the point indices 1..n (0..n-1 in the code).
IsPartition(clusters, n) ==
    /\ \A p \in 1..n :
          Cardinality({<<c, m>> \in (1..Len(clusters)) \X (1..n) :
                          m <= Len(clusters[c]) /\ clusters[c][m] = p}) = 1
    /\ \A c \in 1..Len(clusters) :
          clusters[c] # <<>> /\ \A m \in 1..Len(clusters[c]) : clusters[c][m] \in 1..n

\* C13: a HierarchicalClustering.fit with 1 <= n_clusters <= n_samples
\* keeps the clusters a partition of the points at every merge step, one
\* cluster fewer per step; with a linkage the code knows it returns, and
\* on return exactly n_clusters clusters remain, every point has one
\* label, the labels used are exactly 0..n_clusters-1 and
\* n_iters_ = n_samples - n_clusters.
C13_MergesToNClusters ==
    (hc_last.op = "fit" /\ 1 <= hc_n_clusters /\ hc_n_clusters <= Len(hc_last.X))
        => LET n == Len(hc_last.X)
           IN  /\ \A s \in 1..Len(hc_last.trace) :
                     /\ IsPartition(hc_last.trace[s], n)
                     /\ Len(hc_last.trace[s]) = n - s
               /\ hc_linkage \in Linkages => hc_last.outcome = "returned"
               /\ hc_last.outcome = "returned" =>
                     /\ Len(hc_last.clusters) = hc_n_clusters
                     /\ IsPartition(hc_last.clusters, n)
                     /\ Len(hc_last.trace) = n - hc_n_clusters
                     /\ Len(hc_labels) = n
                     /\ {hc_labels[p] : p \in 1..n} = 0..(hc_n_clusters - 1)
                     /\ hc_n_iters = <<n - hc_n_clusters>>

\* C13 witness: a fit of MaxPoints points into 2 clusters has returned
\* after MaxPoints - 2 merges.
C13_Witness ==
    /\ hc_last.op = "fit" /\ hc_last.outcome = "returned"
    /\ hc_n_clusters = 2 /\ Len(hc_last.X) = MaxPoints
    /\ Len(hc_last.trace) = MaxPoints - 2
    /\ {hc_labels[p] : p \in 1..MaxPoints} = {0, 1}

\* C14: after a fit returns, whatever fits came before it on the instance,
\* merge_history holds exactly the records of that fit, one per
\* agglomeration step: n_samples - n_clusters of them.
C14_HistoryIsOfLastFit ==
    (hc_last.op = "fit" /\ hc_last.outcome = "returned"
        /\ 1 <= hc_n_clusters /\ hc_n_clusters <= Len(hc_last.X))
        => /\ Len(hc_merge_history) = hc_last.merges
           /\ Len(hc_merge_history) = Len(hc_last.X) - hc_n_clusters

\* Point p of X is a core point; point p is noise: neither a core point
\* nor within eps of one.
IsCorePoint(X, p) ==
    Len(region_query(db_metric, X, p, db_eps, 1)) >= db_min_samples
IsNoisePoint(X, p) ==
    /\ ~IsCorePoint(X, p)
    /\ \A c \in 1..Len(X) :
          IsCorePoint(X, c) => ~(distance_func(db_metric, X, c, p) <= db_eps)

\* C15: after DBSCAN.fit, label -1 is on the noise points and only on
\* them; the other labels are exactly 0..n_clusters_-1; cluster c was
\* started by a point of lower index than cluster c+1 and that point
\* carries label c; n_clusters_ counts the distinct non-negative labels
\* and n_noise_ the points labelled -1.
C15_LabelsInDiscoveryOrder ==
    (db_last.op = "fit")
        => LET X == db_last.X
               n == Len(X)
               used == {db_labels[p] : p \in 1..n} \ {-1}
               seeds == db_last.seeds
           IN  /\ Len(db_labels) = n
               /\ \A p \in 1..n : (db_labels[p] = -1) <=> IsNoisePoint(X, p)
               /\ used = 0..(db_n_clusters[1] - 1)
               /\ Len(seeds) = db_n_clusters[1]
               /\ \A c \in 1..Len(seeds) : db_labels[seeds[c]] = c - 1
               /\ \A c \in 1..(Len(seeds) - 1) : seeds[c] < seeds[c + 1]
               /\ db_n_clusters = <<Cardinality(used)>>
               /\ db_n_noise = <<Cardinality({p \in 1..n : db_labels[p] = -1})>>

\* C15 witness: a fit that found two clusters whose members interleave:
\* the second cluster's seed comes before a later member of the first.
C15_Witness ==
    /\ db_last.op = "fit" /\ db_n_clusters = <<2>>
    /\ \E p, q \in 1..Len(db_labels) : p < q /\ db_labels[p] = 1 /\ db_labels[q] = 0

\* The count the stated priority gives: the explicit count, capped to
\* n_features, first; else the smallest count (at least 1) whose cumulative
\* ratio reaches the threshold; else n_features.
CountFirst(n_components, variance_threshold, ratio) ==
    IF n_components # <<>>
    THEN Min(n_components[1], Len(ratio))
    ELSE IF variance_threshold # <<>>
    THEN Max(1, ArgmaxReached(CumulativeRatio(ratio), variance_threshold[1]) + 1)
    ELSE Len(ratio)

\* C16: PCA.fit resolves the number of components by priority: an explicit
\* n_components (at least 1 here), capped to n_features, wins over
\* variance_threshold; else the threshold decides; else all features.
C16_ExplicitCountWins ==
    (/\ dec_last.op = "PCA.fit" /\ dec_last.outcome = "returned"
     /\ (pca_n_components = <<>> \/ pca_n_components[1] >= 1))
        => pca_n_components_ =
              <<CountFirst(pca_n_components, pca_variance_threshold, pca_ratio)>>

\* C17: after a successful fit the count in use is between 1 and
\* n_features (PCA) or min(n_samples, n_features) (SVD), a configured
\* count outside that range never gets as far as a successful fit, and
\* SVD's five arrays all have that count.
C17_CountWithinRange ==
    /\ (dec_last.op = "PCA.fit" /\ dec_last.outcome = "returned")
          => /\ pca_n_components_[1] \in 1..dec_last.n_features
             /\ pca_n_components # <<>> =>
                   pca_n_components[1] \in 1..dec_last.n_features
    /\ (dec_last.op = "SVD.fit_transform" /\ dec_last.outcome = "returned")
          => LET most == Min(dec_last.n_samples, dec_last.n_features)
             IN  /\ \A a \in 1..5 : svd_shapes[a] = svd_shapes[1]
                 /\ svd_shapes[1] \in 1..most
                 /\ svd_n_components # <<>> => svd_n_components[1] \in 1..most

\* The labels present in y_true or y_pred.
LabelsPresent ==
    {mt_y_true[i] : i \in 1..Len(mt_y_true)} \cup {mt_y_pred[i] : i \in 1..Len(mt_y_pred)}

\* C18: classification_metrics reports the tp/tn/fp/fn counts of positive
\* class 1 when the labels present are exactly {0, 1}, and then the four
\* add up to the number of samples; for any other label set it reports
\* four zeros.
C18_BreakdownOnlyForBothLabels ==
    mt_result.called
        => LET one == ConfusionCounts(mt_y_true, mt_y_pred, 1)
               four == <<mt_result.true_negatives, mt_result.false_positives,
                         mt_result.false_negatives, mt_result.true_positives>>
           IN  IF LabelsPresent = {0, 1}
               THEN /\ four = <<one.tn, one.fp, one.fn, one.tp>>
                    /\ SumSeq(four) = Len(mt_y_true)
               ELSE four = <<0, 0, 0, 0>>

\* The per-class precision, recall and F1 of class cls, from its
\* one-vs-rest counts.
ClassPrecision(cls) ==
    LET c == ConfusionCounts(mt_y_true, mt_y_pred, cls) IN Ratio(c.tp, c.fp)
ClassRecall(cls) ==
    LET c == ConfusionCounts(mt_y_true, mt_y_pred, cls) IN Ratio(c.tp, c.fn)
ClassF1(cls) == HarmonicMean(ClassPrecision(cls), ClassRecall(cls))

\* The unweighted mean of f over the classes present.
MacroMean(f(_)) ==
    LET classes == Classes(mt_y_true, mt_y_pred)
    IN  RatMean([c \in 1..Len(classes) |-> f(classes[c])])

\* C19: the reported precision, recall and F1 are each the unweighted mean,
\* over the classes present, of the per-class value.
C19_MacroFiguresAreClassMeans ==
    mt_result.called
        => /\ RatEq(mt_result.precision, MacroMean(ClassPrecision))
           /\ RatEq(mt_result.recall, MacroMean(ClassRecall))
           /\ RatEq(mt_result.f1_score, MacroMean(ClassF1))

\* C20: a predict / transform call leaves the stored statistics and fitted
\* parameters of the model as they were, and a predict that repeats the
\* input of the predict before it returns the same output.
C20_PredictLeavesModelUnchanged ==
    [][/\ (est_kind = "LinearRegression" /\ lr_last' # lr_last /\ lr_last'.op = "predict")
            => /\ UNCHANGED <<lr_weights, lr_stats, lr_is_fitted, lr_method>>
               /\ (lr_last.op = "predict" /\ lr_last'.nX = lr_last.nX
                       /\ lr_last'.nF = lr_last.nF)
                     => lr_last'.outcome = lr_last.outcome
       /\ (est_kind = "KMeans" /\ km_last' # km_last /\ km_last'.op = "predict")
            => /\ UNCHANGED <<km_stats, km_centroids, km_labels, km_n_iters, np_random>>
               /\ (km_last.op = "predict" /\ km_last'.q = km_last.q)
                     => km_last'.value = km_last.value
       /\ (est_kind = "PCA" /\ dec_last' # dec_last /\ dec_last'.op = "PCA.transform")
            => /\ UNCHANGED <<pca_mean, pca_ratio, pca_n_components_, pca_components,
                              pca_is_fitted>>
               /\ (dec_last.op = "PCA.transform"
                       /\ dec_last'.n_features = dec_last.n_features)
                     => dec_last'.value = dec_last.value
       /\ (est_kind \notin DetailedKinds /\ est_last' # est_last
               /\ est_last'.op = "predict")
            => UNCHANGED <<est_is_fitted, est_params>>
      ]_vars

\* C20 witness: a fitted KMeans has answered a predict.
C20_Witness ==
    /\ est_kind = "KMeans"
    /\ km_labels # NoArray /\ km_centroids # NoArray
    /\ km_last.op = "predict" /\ km_last.outcome = "returned"

\* The order in which _normal_equation lists its solvers.
NormalEquationOrder == <<"inv", "pinvXtX", "pinvX", "ridge">>

\* C21: a fit on the normal-equation path tries inv(XtX), pinv(XtX),
\* pinv(X) and the ridge inverse in this order; an attempt runs exactly
\* when all attempts before it failed, whatever the failure, so the trail
\* stops at the first success or after the fourth attempt, and the
\* intercept-only fallback is reached only after the fourth has failed.
C21_SolversTriedInOrderUntilSuccess ==
    (lr_last.op = "fit" /\ lr_last.path = "normal")
        => LET t == lr_last.trail
           IN  /\ Len(t) \in 1..4
               /\ \A i \in 1..Len(t) : t[i][1] = NormalEquationOrder[i]
               /\ \A i \in 1..(Len(t) - 1) : t[i][2] # "ok"
               /\ t[Len(t)][2] # "ok" => Len(t) = 4
               /\ lr_last.solver_raised => (Len(t) = 4 /\ t[4][2] # "ok")

\* C22 as stated: the vector the gradient-descent path returns is an
\* iterate whose loss was evaluated, and no evaluated iterate has a
\* smaller loss.
C22_ReturnsLeastLossIterate ==
    gd_call.pc = "returned"
        => /\ gd_call.returned[1] < gd_call.evaluated
           /\ gd_call.loss_of_best # <<>>
           /\ gd_call.least # <<>>
                => (gd_call.loss_of_best[1] # NaNLoss
                    /\ gd_call.loss_of_best[1] <= gd_call.least[1])

\* C22, amended: with n_iterations >= 1 the returned vector is an iterate
\* whose loss was evaluated, and its loss exceeds the loss of no evaluated
\* iterate by more than tol (an iterate is taken as the new best only when
\* it beats the best loss by more than tol); with n_iterations <= 0 the
\* returned vector is the initial one, whose loss was never evaluated.
C22_ReturnsBestWithinTol ==
    gd_call.pc = "returned"
        => IF gd_n_iterations <= 0
           THEN gd_call.returned = <<0>> /\ gd_call.evaluated = 0
           ELSE /\ gd_call.returned[1] < gd_call.evaluated
                /\ gd_call.loss_of_best # <<>>
                /\ gd_call.least # <<>>
                     => (gd_call.loss_of_best[1] # NaNLoss
                         /\ gd_call.loss_of_best[1] - gd_tol <= gd_call.least[1])

\* C22 witness: a call returned an iterate that is neither the first nor
\* the last one evaluated, and a later iterate had a smaller loss, within
\* tol of the returned one's.
C22_Witness ==
    /\ gd_call.pc = "returned"
    /\ gd_call.returned[1] > 0
    /\ gd_call.returned[1] + 1 < gd_call.evaluated
    /\ gd_call.least[1] < gd_call.loss_of_best[1]

\* The positions at which a call has ended, by return or by an exception.
Ended == {"returned", "ValueError", "TypeError", "UnboundLocalError"}

\* The bounds of C23 on the passes made so far.
LoopsWithinBounds ==
    /\ gd_call.evaluated <= Max(0, gd_n_iterations)
    /\ gd_call.patience_counter <= Patience
    /\ km_call.iteration # <<>> => km_call.iteration[1] + 1 <= km_max_iters
    /\ hc_call.merges <= Max(0, Len(hc_data) - 1)
    /\ db_call.passes <= Len(db_data)
    /\ \A a, b \in 1..Len(db_call.neighbors) :
          a # b => db_call.neighbors[a] # db_call.neighbors[b]

\* C23: every call of an iterative algorithm ends, for every input and
\* configuration: gradient descent after at most n_iterations passes and
\* at most 100 consecutive passes without improvement, KMeans after at
\* most max_iters passes, hierarchical merging after at most
\* n_samples - 1 merges (also for n_clusters <= 0), and a DBSCAN cluster
\* expansion after at most n_samples frontier entries, none of which
\* enters the frontier twice.
C23_LoopsTerminateWithinBounds ==
    /\ []LoopsWithinBounds
    /\ <>(/\ gd_call.pc \in Ended \cup {"none"}
          /\ km_call.pc \in Ended \cup {"none"}
          /\ hc_call.pc \in Ended \cup {"none"}
          /\ db_call.pc \in Ended \cup {"none"})

\* C23 witness: a gradient descent with budget left that ended on its
\* 100th consecutive pass without improvement.
C23_Witness ==
    /\ gd_call.pc = "returned"
    /\ gd_call.patience_counter = Patience
    /\ gd_call.evaluated < gd_n_iterations

\* The linkage distance of two clusters of X as the linkage names define
\* it: the least, the greatest or the mean of the distances of the pairs
\* made of a member of c1 and a member of c2.
LinkageDistance(linkage, X, c1, c2) ==
    LET cross == {<<c1[a], c2[b]>> : a \in 1..Len(c1), b \in 1..Len(c2)}
        dist(p) == distance_func(hc_metric, X, p[1], p[2])
        least == CHOOSE p \in cross : \A q \in cross : dist(p) <= dist(q)
        greatest == CHOOSE p \in cross : \A q \in cross : dist(p) >= dist(q)
        byPair == [k \in 1..(Len(c1) * Len(c2)) |->
                      dist(<<c1[((k - 1) \div Len(c2)) + 1], c2[((k - 1) % Len(c2)) + 1]>>)]
    IN  CASE linkage = "single" -> <<dist(least), 1>>
          [] linkage = "complete" -> <<dist(greatest), 1>>
          [] linkage = "average" -> <<SumSeq(byPair), Len(c1) * Len(c2)>>

\* The cluster list before merge m of the last fit, and the record of it.
ClustersBefore(m) ==
    IF m = 1 THEN [p \in 1..Len(hc_last.X) |-> <<p>>] ELSE hc_last.trace[m - 1]
MergeRecord(m) == hc_merge_history[Len(hc_merge_history) - hc_last.merges + m]

\* Distance x is smaller than distance y (both num / den, den > 0).
Closer(x, y) == x[1] * y[2] < y[1] * x[2]

\* Positions i < j of the list hold a pair of least linkage distance, the
\* first such pair in scan order.
FirstClosestPair(clusters, i, j) ==
    LET L(a, b) == LinkageDistance(hc_linkage, hc_last.X, clusters[a], clusters[b])
    IN  /\ i < j
        /\ \A a, b \in 1..Len(clusters) :
              a < b => /\ ~Closer(L(a, b), L(i, j))
                       /\ (a < i \/ (a = i /\ b < j)) => Closer(L(i, j), L(a, b))

\* C24: every merge of a fit is made on the whole current cluster list:
\* the two clusters merged are the pair of least linkage distance among
\* all pairs (single: least, complete: greatest, average: mean distance
\* of the cross pairs), the first in scan order among the pairs tied at
\* the least distance, and the recorded distance is that least distance.
C24_MergesFirstClosestPair ==
    (hc_last.op = "fit" /\ hc_linkage \in Linkages)
        => \A m \in 1..hc_last.merges :
              LET before == ClustersBefore(m)
                  rec == MergeRecord(m)
              IN  \E i, j \in 1..Len(before) :
                     /\ FirstClosestPair(before, i, j)
                     /\ rec.cluster_1 = before[i]
                     /\ rec.cluster_2 = before[j]
                     /\ RatEq(rec.distance,
                              LinkageDistance(hc_linkage, hc_last.X, before[i], before[j]))
                     /\ hc_last.trace[m] = MergeClusters(before, i, j)

\* C24 witness: a fit under average linkage whose second merge had two
\* pairs tied at the least distance, one of them with a merged cluster.
C24_Witness ==
    /\ hc_last.op = "fit" /\ hc_linkage = "average" /\ hc_last.merges >= 2
    /\ LET before == ClustersBefore(2)
           L(a, b) == LinkageDistance(hc_linkage, hc_last.X, before[a], before[b])
       IN  \E i, j, a, b \in 1..Len(before) :
              /\ FirstClosestPair(before, i, j)
              /\ a < b /\ <<a, b>> # <<i, j>>
              /\ RatEq(L(a, b), L(i, j))
              /\ Len(before[b]) = 2

\* The core points within eps of point p of X.
CoresNear(X, p) ==
    {c \in 1..Len(X) : IsCorePoint(X, c) /\ distance_func(db_metric, X, c, p) <= db_eps}

\* C25: while DBSCAN.fit runs, a label changes at most once, from -1 to
\* the id of the cluster being expanded, and is never overwritten; so at
\* the return a border point within eps of core points of several
\* clusters carries the least of their cluster ids, the id of the cluster
\* discovered first.
C25_LabelSetOnceFirstClusterWins ==
    [][/\ db_call.pc \in {"scan", "expand"}
            => \A p \in 1..Len(db_data) :
                  db_call'.labels[p] # db_call.labels[p]
                     => (db_call.labels[p] = -1 /\ db_call'.labels[p] = db_call.cluster_id)
       /\ (db_call.pc # "returned" /\ db_call'.pc = "returned")
            => \A p \in 1..Len(db_data) :
                  (~IsCorePoint(db_data, p) /\ CoresNear(db_data, p) # {})
                     => \A c \in CoresNear(db_data, p) : db_labels'[p] <= db_labels'[c]
      ]_vars

\* C25 witness: a fit returned with a border point that lies within eps
\* of core points of two different clusters.
C25_Witness ==
    /\ db_call.pc = "returned"
    /\ \E p \in 1..Len(db_data) :
          /\ ~IsCorePoint(db_data, p)
          /\ \E c1, c2 \in CoresNear(db_data, p) : db_labels[c1] # db_labels[c2]

\* The points of X within eps of point p (p is one of them when its
\* distance to itself is at most eps).
Neighbourhood(X, p) ==
    {q \in 1..Len(X) : distance_func(db_metric, X, p, q) <= db_eps}
\* p has a neighbourhood of at least min_samples points.
DenseAt(X, p) == Cardinality(Neighbourhood(X, p)) >= db_min_samples
\* p lies in the neighbourhood of a point with a dense neighbourhood.
NearDense(X, p) == \E c \in 1..Len(X) : DenseAt(X, c) /\ p \in Neighbourhood(X, c)

\* C26: after DBSCAN.fit a point is labelled -1 exactly when its own
\* neighbourhood has fewer than min_samples points and it lies in the
\* neighbourhood of no core point; every core point and every point within
\* eps of one has a label >= 0; core_sample_indices_ lists, in increasing
\* order, exactly the points whose neighbourhood has min_samples points
\* or more.
C26_NoiseAndCoreSamples ==
    (db_last.op = "fit")
        => LET X == db_last.X
           IN  /\ \A p \in 1..Len(X) :
                     /\ (db_labels[p] = -1) <=> (~DenseAt(X, p) /\ ~NearDense(X, p))
                     /\ (DenseAt(X, p) \/ NearDense(X, p)) => db_labels[p] >= 0
               /\ {db_core[k] + 1 : k \in 1..Len(db_core)} = {p \in 1..Len(X) : DenseAt(X, p)}
               /\ \A k \in 1..(Len(db_core) - 1) : db_core[k] < db_core[k + 1]

\* C26 witness: a fit that left a noise point, a core point and a border
\* point (labelled, with a neighbourhood that is too small).
C26_Witness ==
    /\ db_last.op = "fit"
    /\ \E p, c, b \in 1..Len(db_last.X) :
          /\ db_labels[p] = -1
          /\ c + 0 = c /\ DenseAt(db_last.X, c)
          /\ ~DenseAt(db_last.X, b) /\ db_labels[b] >= 0

\* C30: after DBSCAN.fit any two core points within eps of each other carry
\* the same label, and every cluster label is carried by at least one core
\* point.
C30_CoresConnectedClustersHaveCore ==
    (db_last.op = "fit")
        => LET X == db_last.X
           IN  /\ \A p, q \in 1..Len(X) :
                     (DenseAt(X, p) /\ DenseAt(X, q) /\ q \in Neighbourhood(X, p))
                         => db_labels[p] = db_labels[q]
               /\ \A p \in 1..Len(X) :
                     db_labels[p] >= 0
                         => \E c \in 1..Len(X) : DenseAt(X, c) /\ db_labels[c] = db_labels[p]

\* C30 witness: a fit that found two clusters, one of them holding two core
\* points at different places within eps of each other, the second of which
\* is outside the neighbourhood of the point that started the cluster.
C30_Witness ==
    /\ db_last.op = "fit"
    /\ \E p, q, r \in 1..Len(db_last.X) :
          /\ DenseAt(db_last.X, p) /\ DenseAt(db_last.X, q) /\ DenseAt(db_last.X, r)
          /\ db_last.X[p] # db_last.X[q]
          /\ q \in Neighbourhood(db_last.X, p)
          /\ r \notin Neighbourhood(db_last.X, p)
          /\ r \in Neighbourhood(db_last.X, q)
          /\ db_labels[p] = 0 /\ db_labels[r] = 0
    /\ \E s \in 1..Len(db_last.X) : db_labels[s] = 1

\* C29: once KMeans.fit has returned, by convergence or at the iteration
\* cap, the stored label of every training point is the index of the
\* centroid nearest to it among the stored centroids under the selected
\* metric, the lowest index on ties; it is the label predict returns for
\* that point.
C29_LabelsMatchFinalCentroids ==
    (km_n_iters # <<>>)
        => \A m \in 1..Len(km_stats) :
              km_labels[m] = ArgminCentroid(km_metric, km_stats, km_stats[m], km_centroids)

\* The multisets of d feature indices out of n, as non-decreasing tuples.
Multisets(n, d) ==
    {t \in [1..d -> 0..(n - 1)] : \A k \in 1..(d - 1) : t[k] <= t[k + 1]}
\* A tuple in which some index occurs more than once.
HasRepeatedIndex(t) == \E j, k \in 1..Len(t) : j # k /\ t[j] = t[k]
\* The columns of degree two and more of the last call: [term, name].
HigherTerms ==
    LET at == {k \in 1..Len(pf_last.terms) : Len(pf_last.terms[k]) >= 2}
    IN  {[term |-> pf_last.terms[k], name |-> pf_last.feature_names[k], column |-> k] :
            k \in at}

\* C27: after generate_polynomial_features, the columns of degree d in
\* 2..degree stand for the multisets of d feature indices, each once; a
\* multiset with a repeated index is a pure-power term (named xi^d), any
\* other an interaction term; with interaction_only every pure-power term
\* is dropped, so each column of degree two or more multiplies pairwise
\* distinct features; there is one name per output column.
C27_MultisetsPowersAndInteractions ==
    (pf_last.op = "generate_polynomial_features")
        => /\ Len(pf_last.feature_names) = Len(pf_last.features)
           /\ \A h \in HigherTerms : h.term \in Multisets(Len(pf_X), Len(h.term))
           /\ \A d \in 2..pf_degree : \A t \in Multisets(Len(pf_X), d) :
                 LET columns == {h \in HigherTerms : h.term = t}
                 IN  IF pf_interaction_only /\ HasRepeatedIndex(t)
                     THEN columns = {}
                     ELSE /\ Cardinality(columns) = 1
                          /\ \A h \in columns :
                                HasRepeatedIndex(t)
                                    <=> h.name = "x" \o ToString(t[1]) \o "^" \o ToString(d)
           /\ pf_interaction_only
                 => \A h \in HigherTerms : ~HasRepeatedIndex(h.term)

\* C28: after GaussianNaiveBayes.fit on a non-empty training set every
\* stored variance var_[c][f] is the variance of feature f within class c
\* plus the smoothing term and is strictly positive, so that a predict
\* never divides by a zero variance.
C28_VariancesStrictlyPositive ==
    /\ nb_is_fitted
          => \A idx \in 1..Len(nb_var) : \A f \in 1..Len(nb_var[idx]) :
                /\ RatEq(nb_var[idx][f],
                         RatAdd(ColumnVar(ColumnOf(nb_X, {k \in 1..Len(nb_X) :
                                                            nb_y[k] = nb_classes[idx]}, f, 1)),
                                nb_epsilon[1]))
                /\ RatLess(<<0, 1>>, nb_var[idx][f])
    /\ (nb_last.op = "predict" /\ nb_last.outcome = "returned") => ~nb_last.zero_division

====
